---- MODULE Spec2Model ----
(***************************************************************************)
(* TalentScout hiring assistant: the conversation engine                   *)
(* (chatbot.py, TalentScoutChatbot) and the question generator it owns     *)
(* (ai_question_generator.py, AIQuestionGenerator).                        *)
(*                                                                         *)
(* A Python str is a sequence of one-character strings, so that strip,     *)
(* split, lower, the regular expressions and int() are computed and not    *)
(* assumed.  A returned message is a sequence of parts: Lit(s) is a        *)
(* fragment of a string literal of the source, Txt(cs) is interpolated     *)
(* text.  Every literal is cut at each "**" marker, at each point of       *)
(* interpolation and nowhere else; emoji are left out of the literals and  *)
(* a bullet is written "-" (the parser accepts ASCII only).                *)
(***************************************************************************)
EXTENDS Integers, Sequences, FiniteSets, TLC

VARIABLES
    conversation_state,   \* chatbot.py self.conversation_state
    candidate_data,       \* chatbot.py self.candidate_data (a dict)
    technical_questions,  \* chatbot.py self.technical_questions (a list)
    current_tech_index,   \* chatbot.py self.current_tech_index
    question_cache,       \* ai_question_generator.py self.question_cache
    op,                   \* the method called last: "start", "process", "end",
                          \* "progress", "generate"
    user_input,           \* the argument of the latest process_input call
    response,             \* the string returned by the latest call
    raised,               \* the exception the latest call raised, "" if none
    prompt,               \* the message that was returned when the current
                          \* conversation_state was entered
    answers,              \* history: calls of _handle_technical_questions
                          \* since the tech stack was accepted
    phases,               \* history: the times _handle_technical_questions
                          \* moved on from a technology
    progress,             \* the value returned by the latest get_progress
                          \* call, -1 before the first
    starts,               \* history: calls of start_conversation so far
    call_technology,      \* the arguments of the latest direct call of
    call_number,          \* generate_question
    asked,                \* history: what generate_question returned the
                          \* first time it was called directly with each
                          \* pair of arguments
    store,                \* database_handler.py: the rows of table candidates
    now,                  \* the clock (datetime.utcnow()), in days
    hash_seed,            \* the str hash of the running Python process
    store_arg,            \* the argument of the latest DatabaseHandler call
    store_result,         \* the value returned by the latest DatabaseHandler
                          \* call
    db_fault,             \* the database error the latest DatabaseHandler
                          \* call met, "none" if none
    conversation_ended,   \* app.py st.session_state.conversation_ended
    upserts,              \* history: save_candidate_data calls of the host
    turn_input,           \* the text of the latest user turn of the host
    other                 \* the fields of a second, suspended session

vars == <<conversation_state, candidate_data, technical_questions,
          current_tech_index, question_cache, op, user_input, response,
          raised, prompt, answers, phases, progress, starts, call_technology,
          call_number, asked, store, now, hash_seed, store_arg,
          store_result, db_fault, conversation_ended, upserts, turn_input, other>>

\* the variables of the record store, of the host and of a second session
store_vars == <<store, now, hash_seed, store_arg, store_result, db_fault>>
host_vars == <<conversation_ended, upserts, turn_input>>
outside == <<store_vars, host_vars, other>>

\* the variables the engine's conversation methods leave alone
bank_calls == <<call_technology, call_number, asked>>

----------------------------------------------------------------------------
(* Characters and Python's str operations                                  *)

LowerCase == <<"a","b","c","d","e","f","g","h","i","j","k","l","m",
               "n","o","p","q","r","s","t","u","v","w","x","y","z">>
UpperCase == <<"A","B","C","D","E","F","G","H","I","J","K","L","M",
               "N","O","P","Q","R","S","T","U","V","W","X","Y","Z">>
DigitChars == <<"0","1","2","3","4","5","6","7","8","9">>

Range(f) == {f[i] : i \in DOMAIN f}

Letters == Range(LowerCase) \cup Range(UpperCase)
DigitSet == Range(DigitChars)

IsAlpha(c) == c \in Letters
IsDigit(c) == c \in DigitSet
IsSpace(c) == c \in {" ", "\t", "\n", "\r"}

\* str.lower() on one character
LowerChar(c) ==
    IF c \in Range(UpperCase)
    THEN LowerCase[CHOOSE i \in DOMAIN UpperCase : UpperCase[i] = c]
    ELSE c

\* str.lower()
lower(s) == [i \in DOMAIN s |-> LowerChar(s[i])]

RECURSIVE lstrip(_)
lstrip(s) == IF s = <<>> \/ ~IsSpace(Head(s)) THEN s ELSE lstrip(Tail(s))

RECURSIVE rstrip(_)
rstrip(s) ==
    IF s = <<>> \/ ~IsSpace(s[Len(s)]) THEN s
    ELSE rstrip(SubSeq(s, 1, Len(s) - 1))

\* variant: only the leading whitespace is removed
strip_leading_only(s) == lstrip(s)

\* str.strip()
strip(s) == rstrip(lstrip(s))

\* str.split(','): the pieces between commas, empty pieces kept
RECURSIVE split_acc(_, _, _)
split_acc(s, cur, acc) ==
    IF s = <<>> THEN Append(acc, cur)
    ELSE IF Head(s) = "," THEN split_acc(Tail(s), <<>>, Append(acc, cur))
    ELSE split_acc(Tail(s), Append(cur, Head(s)), acc)

split(s) == split_acc(s, <<>>, <<>>)

\* s in t, for str
IsSubstring(s, t) ==
    \E i \in 0..(Len(t) - Len(s)) : SubSeq(t, i + 1, i + Len(s)) = s

\* the longest run of digits int() converts: CPython's default
\* sys.int_info.default_max_str_digits; a longer run raises ValueError
MaxStrDigits == 4300

\* int(s) for a run of decimal digits
RECURSIVE int(_)
int(s) ==
    IF s = <<>> THEN 0
    ELSE 10 * int(SubSeq(s, 1, Len(s) - 1))
         + ((CHOOSE i \in DOMAIN DigitChars : DigitChars[i] = s[Len(s)]) - 1)

\* str(n) for n >= 0
RECURSIVE str(_)
str(n) ==
    IF n < 10 THEN <<DigitChars[n + 1]>>
    ELSE Append(str(n \div 10), DigitChars[(n % 10) + 1])

----------------------------------------------------------------------------
(* Messages                                                                *)

Lit(s) == [lit |-> s, txt |-> <<>>]
Txt(cs) == [lit |-> "", txt |-> cs]
Bold == Lit("**")

\* bool(s) of a str built from parts: some part is not empty
Truthy(msg) == \E i \in DOMAIN msg : msg[i].lit # "" \/ msg[i].txt # <<>>

\* the value None
None == <<>>

----------------------------------------------------------------------------
(* AIQuestionGenerator                                                     *)

\* the dict tech_questions, its entries in the order the source writes them
tech_questions == <<
    [key |-> <<"p","y","t","h","o","n">>,
     basic |-> <<
          "What are the key differences between lists and tuples in Python?",
          "Explain how Python's garbage collection works.",
          "What is the difference between '==' and 'is' operators in Python?">>,
     intermediate |-> <<
          "How do decorators work in Python? Provide an example.",
          "Explain the concept of generators and their advantages over regular functions.",
          "What are context managers in Python and how do you implement them?">>,
     advanced |-> <<
          "How would you implement a metaclass in Python and when would you use it?",
          "Explain the Global Interpreter Lock (GIL) and its impact on multithreading.",
          "How would you optimize Python code for better performance?">>],
    [key |-> <<"j","a","v","a","s","c","r","i","p","t">>,
     basic |-> <<
          "What is the difference between var, let, and const in JavaScript?",
          "Explain how hoisting works in JavaScript.",
          "What are the different data types in JavaScript?">>,
     intermediate |-> <<
          "How do closures work in JavaScript? Provide an example.",
          "Explain event bubbling and event capturing.",
          "What is the difference between synchronous and asynchronous code?">>,
     advanced |-> <<
          "How does the JavaScript event loop work?",
          "Explain prototypal inheritance in JavaScript.",
          "How would you implement a Promise from scratch?">>],
    [key |-> <<"r","e","a","c","t">>,
     basic |-> <<
          "What is the difference between state and props in React?",
          "Explain the concept of JSX.",
          "What are React components and how do you create them?">>,
     intermediate |-> <<
          "How do React hooks work and why were they introduced?",
          "Explain the component lifecycle methods in React.",
          "What is the virtual DOM and how does it improve performance?">>,
     advanced |-> <<
          "How would you optimize a React application for better performance?",
          "Explain React's reconciliation algorithm.",
          "How do you implement code splitting in React?">>],
    [key |-> <<"n","o","d","e",".","j","s">>,
     basic |-> <<
          "What is Node.js and how does it differ from browser JavaScript?",
          "Explain the concept of modules in Node.js.",
          "What is npm and how do you manage dependencies?">>,
     intermediate |-> <<
          "How does the Node.js event loop work?",
          "Explain the difference between synchronous and asynchronous operations.",
          "How do you handle errors in Node.js applications?">>,
     advanced |-> <<
          "How would you scale a Node.js application?",
          "Explain cluster and worker threads in Node.js.",
          "How do you implement caching strategies in Node.js?">>],
    [key |-> <<"j","a","v","a">>,
     basic |-> <<
          "What is the difference between abstract classes and interfaces in Java?",
          "Explain the concept of inheritance in Java.",
          "What are the different access modifiers in Java?">>,
     intermediate |-> <<
          "How does garbage collection work in Java?",
          "Explain the concept of polymorphism with examples.",
          "What are generics in Java and why are they useful?">>,
     advanced |-> <<
          "How do you optimize Java applications for better performance?",
          "Explain the Java memory model and its implications.",
          "How would you implement a custom thread pool in Java?">>],
    [key |-> <<"s","q","l">>,
     basic |-> <<
          "What is the difference between INNER JOIN and LEFT JOIN?",
          "Explain the concept of primary keys and foreign keys.",
          "What are the different types of SQL commands?">>,
     intermediate |-> <<
          "How do you optimize slow-running SQL queries?",
          "Explain database normalization and its benefits.",
          "What are indexes and how do they improve performance?">>,
     advanced |-> <<
          "How would you design a database schema for a complex application?",
          "Explain ACID properties in database transactions.",
          "How do you handle database concurrency and locking?">>],
    [key |-> <<"m","o","n","g","o","d","b">>,
     basic |-> <<
          "What is MongoDB and how does it differ from relational databases?",
          "Explain the concept of documents and collections.",
          "How do you perform basic CRUD operations in MongoDB?">>,
     intermediate |-> <<
          "How do you design efficient MongoDB schemas?",
          "Explain indexing strategies in MongoDB.",
          "What are aggregation pipelines and how do you use them?">>,
     advanced |-> <<
          "How would you implement sharding in MongoDB?",
          "Explain replica sets and their role in high availability.",
          "How do you optimize MongoDB performance?">>],
    [key |-> <<"d","o","c","k","e","r">>,
     basic |-> <<
          "What is Docker and what problems does it solve?",
          "Explain the difference between Docker images and containers.",
          "How do you create a basic Dockerfile?">>,
     intermediate |-> <<
          "How do you manage multi-container applications with Docker Compose?",
          "Explain Docker networking and volume management.",
          "What are the best practices for writing Dockerfiles?">>,
     advanced |-> <<
          "How would you implement a CI/CD pipeline with Docker?",
          "Explain Docker orchestration with Kubernetes.",
          "How do you optimize Docker images for production?">>],
    [key |-> <<"k","u","b","e","r","n","e","t","e","s">>,
     basic |-> <<
          "What is Kubernetes and what problems does it solve?",
          "Explain the concept of pods, services, and deployments.",
          "How do you deploy an application to Kubernetes?">>,
     intermediate |-> <<
          "How does Kubernetes handle service discovery and load balancing?",
          "Explain ConfigMaps and Secrets in Kubernetes.",
          "What are the different types of Kubernetes services?">>,
     advanced |-> <<
          "How would you implement auto-scaling in Kubernetes?",
          "Explain Kubernetes networking and ingress controllers.",
          "How do you monitor and troubleshoot Kubernetes clusters?">>]
>>

\* variant: the tier wraps with the number, 4 is basic again
difficulty_wraps(question_number) ==
    CASE question_number % 3 = 1 -> "basic"
      [] question_number % 3 = 2 -> "intermediate"
      [] OTHER -> "advanced"

\* difficulty_levels.get(question_number, "intermediate")
difficulty(question_number) ==
    CASE question_number = 1 -> "basic"
      [] question_number = 2 -> "intermediate"
      [] question_number = 3 -> "advanced"
      [] OTHER -> "intermediate"

\* tech_questions[key].get(difficulty, [])
questions_by_difficulty(entry, d) ==
    CASE d = "basic" -> entry.basic
      [] d = "intermediate" -> entry.intermediate
      [] d = "advanced" -> entry.advanced
      [] OTHER -> <<>>

\* the dict generic_questions; the closing "?" of a template is its own part
generic_questions(d, technology) ==
    CASE d = "basic" -> <<
          <<Lit("What are the fundamental concepts you should know when working with "),
            Txt(technology), Lit("?")>>,
          <<Lit("How would you explain "), Txt(technology),
            Lit(" to someone who's new to it"), Lit("?")>>,
          <<Lit("What are the main advantages of using "), Txt(technology),
            Lit(" in development"), Lit("?")>> >>
      [] d = "advanced" -> <<
          <<Lit("How would you architect a large-scale application using "),
            Txt(technology), Lit("?")>>,
          <<Lit("What are the advanced features of "), Txt(technology),
            Lit(" that you've worked with"), Lit("?")>>,
          <<Lit("How would you optimize and scale applications built with "),
            Txt(technology), Lit("?")>> >>
      [] OTHER -> <<
          <<Lit("What are some best practices when developing with "),
            Txt(technology), Lit("?")>>,
          <<Lit("How would you debug common issues in "), Txt(technology),
            Lit(" applications"), Lit("?")>>,
          <<Lit("What are the performance considerations when using "),
            Txt(technology), Lit("?")>> >>

\* the keys the partial-match loop accepts, as indexes of tech_questions
partial_matches(tech_lower, d) ==
    {k \in DOMAIN tech_questions :
        /\ \/ IsSubstring(tech_questions[k].key, tech_lower)
           \/ IsSubstring(tech_lower, tech_questions[k].key)
        /\ questions_by_difficulty(tech_questions[k], d) # <<>>}

Min(S) == CHOOSE x \in S : \A y \in S : x <= y

\* variant: no generic question, None when the table has no match
generate_without_generic(technology, question_number) ==
    LET tech_lower == lower(technology)
        d == difficulty(question_number)
        partial == partial_matches(tech_lower, d)
        pick(qs) == qs[((question_number - 1) % Len(qs)) + 1]
    IN  IF partial # {}
        THEN <<Lit(pick(questions_by_difficulty(tech_questions[Min(partial)], d)))>>
        ELSE <<>>

Max(S) == CHOOSE x \in S : \A y \in S : x >= y

\* variant: of the keys that match in part, the last one is taken
generate_last_match(technology, question_number) ==
    LET tech_lower == lower(technology)
        d == difficulty(question_number)
        exact == {k \in DOMAIN tech_questions :
                     /\ tech_questions[k].key = tech_lower
                     /\ questions_by_difficulty(tech_questions[k], d) # <<>>}
        partial == partial_matches(tech_lower, d)
        pick(qs) == qs[((question_number - 1) % Len(qs)) + 1]
    IN  IF exact # {}
        THEN <<Lit(pick(questions_by_difficulty(tech_questions[Min(exact)], d)))>>
        ELSE IF partial # {}
        THEN <<Lit(pick(questions_by_difficulty(tech_questions[Max(partial)], d)))>>
        ELSE pick(generic_questions(d, technology))

\* variant: the table is searched for the technology as it was written
generate_case_sensitive(technology, question_number) ==
    LET d == difficulty(question_number)
        exact == {k \in DOMAIN tech_questions :
                     /\ tech_questions[k].key = technology
                     /\ questions_by_difficulty(tech_questions[k], d) # <<>>}
        partial == partial_matches(technology, d)
        pick(qs) == qs[((question_number - 1) % Len(qs)) + 1]
    IN  IF exact # {}
        THEN <<Lit(pick(questions_by_difficulty(tech_questions[Min(exact)], d)))>>
        ELSE IF partial # {}
        THEN <<Lit(pick(questions_by_difficulty(tech_questions[Min(partial)], d)))>>
        ELSE pick(generic_questions(d, technology))

\* AIQuestionGenerator._generate_with_simple_ai
generate_with_simple_ai(technology, question_number) ==
    LET tech_lower == lower(technology)
        d == difficulty(question_number)
        exact == {k \in DOMAIN tech_questions :
                     /\ tech_questions[k].key = tech_lower
                     /\ questions_by_difficulty(tech_questions[k], d) # <<>>}
        partial == partial_matches(tech_lower, d)
        pick(qs) == qs[((question_number - 1) % Len(qs)) + 1]
    IN  IF exact # {}
        THEN <<Lit(pick(questions_by_difficulty(tech_questions[Min(exact)], d)))>>
        ELSE IF partial # {}
        THEN <<Lit(pick(questions_by_difficulty(tech_questions[Min(partial)], d)))>>
        ELSE pick(generic_questions(d, technology))

\* cache_key = f"{technology.lower()}_{question_number}"
cache_key(technology, question_number) ==
    lower(technology) \o <<"_">> \o str(question_number)

\* AIQuestionGenerator.generate_question: the value returned
generate_question(cache, technology, question_number) ==
    LET k == cache_key(technology, question_number)
        question == generate_with_simple_ai(technology, question_number)
    IN  IF k \in DOMAIN cache THEN cache[k]
        ELSE IF Truthy(question) THEN question
        ELSE None

\* variant: the cache entry is written again on every call
cache_after_overwrites(cache, technology, question_number) ==
    LET k == cache_key(technology, question_number)
        question == generate_with_simple_ai(technology, question_number)
    IN  [x \in DOMAIN cache \cup {k} |-> IF x = k THEN question ELSE cache[x]]

\* AIQuestionGenerator.generate_question: question_cache after the call
cache_after(cache, technology, question_number) ==
    LET k == cache_key(technology, question_number)
        question == generate_with_simple_ai(technology, question_number)
    IN  IF k \in DOMAIN cache THEN cache
        ELSE IF Truthy(question)
        THEN [x \in DOMAIN cache \cup {k} |-> IF x = k THEN question ELSE cache[x]]
        ELSE cache

----------------------------------------------------------------------------
(* TalentScoutChatbot: constants, validation                               *)

questions_per_tech == 3

\* self.states
states == <<"greeting", "name", "email", "phone", "experience",
            "position", "location", "tech_stack", "technical_questions",
            "completed">>

NameMin == 2
NameMax == 50
TldMin == 2
PhoneMin == 8
PhoneMax == 20
YearsMax == 50
TextMin == 2

\* re.match(r"^[a-zA-Z\s]{2,50}$", s)
match_name(s) ==
    /\ Len(s) >= NameMin
    /\ Len(s) <= NameMax
    /\ \A i \in DOMAIN s : IsAlpha(s[i]) \/ IsSpace(s[i])

IsLocalChar(c) == IsAlpha(c) \/ IsDigit(c) \/ c \in {".", "_", "%", "+", "-"}
IsDomainChar(c) == IsAlpha(c) \/ IsDigit(c) \/ c \in {".", "-"}

\* the whole of s is [a-zA-Z0-9._%+-]+@[a-zA-Z0-9.-]+\.[a-zA-Z]{2,}
match_email_to_end(s) ==
    \E at \in DOMAIN s : \E dot \in DOMAIN s :
        /\ s[at] = "@"
        /\ s[dot] = "."
        /\ at > 1
        /\ dot > at + 1
        /\ Len(s) - dot >= TldMin
        /\ \A i \in 1..(at - 1) : IsLocalChar(s[i])
        /\ \A i \in (at + 1)..(dot - 1) : IsDomainChar(s[i])
        /\ \A i \in (dot + 1)..Len(s) : IsAlpha(s[i])

\* re.match(email_pattern, s): the closing $ matches at the end of s and
\* also before a line feed that ends s
match_email(s) ==
    \/ match_email_to_end(s)
    \/ /\ s # <<>>
       /\ s[Len(s)] = "\n"
       /\ match_email_to_end(SubSeq(s, 1, Len(s) - 1))

IsPhoneChar(c) == IsDigit(c) \/ IsSpace(c) \/ c \in {"-", "(", ")", "."}

\* re.match(r"^[\+]?[\d\s\-\(\)\.]{8,20}$", s)
match_phone(s) ==
    LET body == IF s # <<>> /\ Head(s) = "+" THEN Tail(s) ELSE s
    IN  /\ Len(body) >= PhoneMin
        /\ Len(body) <= PhoneMax
        /\ \A i \in DOMAIN body : IsPhoneChar(body[i])

\* the longest prefix of s made of digits: \d+ is greedy
digit_prefix(s) ==
    LET stops == {i \in DOMAIN s : ~IsDigit(s[i])} \cup {Len(s) + 1}
        stop == CHOOSE i \in stops : \A j \in stops : i <= j
    IN  SubSeq(s, 1, stop - 1)

\* variant: the digits are looked for at the start only, as re.match would
match_digits_at_start(s) == digit_prefix(s)

\* re.search(r'\d+', s).group(), <<>> when there is no match
RECURSIVE search_digits(_)
search_digits(s) ==
    IF s = <<>> THEN <<>>
    ELSE IF IsDigit(Head(s)) THEN digit_prefix(s)
    ELSE search_digits(Tail(s))

\* variant: the filter on empty pieces is missing
parse_tech_stack_keep_empty(s) == [i \in DOMAIN split(s) |-> strip(split(s)[i])]

\* [tech.strip() for tech in user_input.split(',') if tech.strip()]
parse_tech_stack(s) ==
    LET pieces == split(s)
        Keep(p) == strip(p) # <<>>
    IN  [i \in DOMAIN SelectSeq(pieces, Keep) |-> strip(SelectSeq(pieces, Keep)[i])]

\* ', '.join(xs)
RECURSIVE join(_)
join(xs) ==
    IF xs = <<>> THEN <<>>
    ELSE IF Len(xs) = 1 THEN xs[1]
    ELSE xs[1] \o <<",", " ">> \o join(Tail(xs))

\* d[k] = v on a dict
Put(d, k, v) == [x \in DOMAIN d \cup {k} |-> IF x = k THEN v ELSE d[x]]

----------------------------------------------------------------------------
(* TalentScoutChatbot: the messages                                        *)

q_name == <<Bold, Lit("What's your full name?"), Bold>>
q_email == <<Bold, Lit("What's your email address?"), Bold>>
q_phone == <<Bold, Lit("What's your phone number?"), Bold>>
q_experience ==
    <<Bold, Lit("How many years of professional experience do you have?"), Bold>>
q_position ==
    <<Bold, Lit("What position(s) are you interested in or applying for?"), Bold>>
q_location == <<Bold, Lit("What's your current location (city, country)?"), Bold>>
q_tech_stack == <<Bold, Lit("Please list your tech stack"), Bold>>

msg_start == <<Lit("Hi! I'm here to help with your application. ")>> \o q_name

msg_no_input == <<Lit("I didn't receive any input. Could you please try again?")>>

msg_name_ok(name) ==
    <<Lit("Nice to meet you, "), Txt(name), Lit("! \n\n")>> \o q_email
msg_name_bad ==
    <<Lit("Please provide a valid full name (2-50 characters, letters and spaces only). ")>>
    \o q_name

msg_email_ok == <<Lit("Great! ")>> \o q_phone
msg_email_bad ==
    <<Lit("Please provide a valid email address (e.g., john.doe@example.com). ")>>
    \o q_email

msg_phone_ok == <<Lit("Perfect! ")>> \o q_experience
msg_phone_bad ==
    <<Lit("Please provide a valid phone number (8-15 digits, may include +, spaces, dashes, or parentheses). ")>>
    \o q_phone

msg_experience_ok == <<Lit("Excellent! ")>> \o q_position
msg_experience_bad ==
    <<Lit("Please provide a valid number of years of experience (0-50 years). "),
      Lit("You can say something like '3 years' or just '3'. ")>>
    \o q_experience

msg_position_ok == <<Lit("Great choice! ")>> \o q_location
msg_position_bad ==
    <<Lit("Please provide the position you're interested in (at least 2 characters). ")>>
    \o q_position

msg_location_ok ==
    <<Lit("Perfect! Now let's talk about your technical skills. \n\n")>>
    \o q_tech_stack
    \o <<Lit(" - including programming languages, frameworks, "),
         Lit("databases, tools, and any other technologies you're proficient in. "),
         Lit("You can separate them with commas.\n\n"),
         Lit("*Example: Python, JavaScript, React, Django, PostgreSQL, Docker*")>>
msg_location_bad ==
    <<Lit("Please provide your current location (at least 2 characters). ")>>
    \o q_location

msg_tech_stack_bad ==
    <<Lit("Please provide at least one technology from your tech stack. "),
      Lit("You can separate multiple technologies with commas. "),
      Bold, Lit("Please list your tech stack:"), Bold>>

\* intro_message of _generate_next_technical_questions
intro_message(current_tech) ==
    <<Lit("\n "), Bold, Lit("Technical Assessment: "), Txt(current_tech), Bold,
      Lit("\n\n"),
      Lit("I'll ask you "), Txt(str(questions_per_tech)), Lit(" questions about "),
      Txt(current_tech), Lit(". "),
      Lit("Please answer to the best of your ability.\n\n")>>

msg_question(intro, question_num, current_tech, question) ==
    intro
    \o <<Bold, Lit("Question "), Txt(str(question_num)), Lit(" ("),
         Txt(current_tech), Lit("):"), Bold, Lit(" ")>>
    \o question

\* the summary of _complete_technical_assessment
msg_summary(tech_stack) ==
    <<Lit("\n "), Bold, Lit("Technical Assessment Complete!"), Bold, Lit("\n\n"),
      Lit("Thank you for answering the technical questions! I've assessed your knowledge across "),
      Txt(str(Len(tech_stack))), Lit(" technologies: "),
      Txt(join(tech_stack)), Lit(".\n\n"),
      Bold, Lit("Next Steps:"), Bold, Lit("\n"),
      Lit("- Our technical team will review your responses\n"),
      Lit("- You'll receive an email within 2-3 business days with feedback\n"),
      Lit("- If you advance, we'll schedule a technical interview\n"),
      Lit("- For any questions, contact us at hr@talentscout.com\n\n"),
      Lit("Is there anything else you'd like to know about the position or our company? "),
      Lit("Otherwise, you can type 'exit' to end our conversation.")>>

msg_fallback_completed ==
    <<Lit("Our initial screening is complete! If you have any questions about the position "),
      Lit("or TalentScout, I'm happy to help. Otherwise, you can type 'exit' to end our conversation.")>>
msg_fallback_other ==
    <<Lit("I'm not sure I understand. Could you please provide the information I requested? "),
      Lit("If you need help, you can type 'exit' to end our conversation.")>>

\* the message of end_conversation
msg_farewell(data) ==
    <<Lit("\n "), Bold, Lit("Thank you for your time!"), Bold, Lit("\n\n")>>
    \o (IF DOMAIN data # {}
        THEN <<Lit("I've recorded all the information you provided. ")>>
        ELSE <<>>)
    \o <<Lit("Our team will review your details and get back to you soon.\n\n"),
         Bold, Lit("Next Steps:"), Bold, Lit("\n"),
         Lit("- Check your email for confirmation and next steps\n"),
         Lit("- Our team will contact you within 2-3 business days\n"),
         Lit("- Keep an eye out for updates about your application status\n\n"),
         Bold, Lit("Contact Information:"), Bold, Lit("\n"),
         Lit(" hr@talentscout.com\n"),
         Lit(" +1 (555) 123-4567\n"),
         Lit(" www.talentscout.com\n\n"),
         Lit("Good luck with your application! ")>>

----------------------------------------------------------------------------
(* TalentScoutChatbot: the handlers                                        *)

\* what a call leaves behind: the fields it may write, the value returned
\* and the exception raised ("" when the call returns)
Outcome(st, data, tq, idx, cache, resp, exc) ==
    [conversation_state |-> st, candidate_data |-> data,
     technical_questions |-> tq, current_tech_index |-> idx,
     question_cache |-> cache, response |-> resp, raised |-> exc]

\* TalentScoutChatbot._complete_technical_assessment
complete_technical_assessment(data, tq, idx, cache) ==
    Outcome("completed", data, tq, idx, cache, msg_summary(data.tech_stack), "")

\* variant: every question is asked about the first technology
generate_next_first_technology(st, data, tq, idx, cache) ==
    LET current_tech == data.tech_stack[1]
        questions_for_current_tech == Len(tq) % questions_per_tech
        intro == IF questions_for_current_tech = 0
                 THEN intro_message(current_tech) ELSE <<>>
        question == generate_question(cache, current_tech,
                                      questions_for_current_tech + 1)
        cache2 == cache_after(cache, current_tech, questions_for_current_tech + 1)
    IN  Outcome(st, data, Append(tq, question), idx, cache2,
                msg_question(intro, questions_for_current_tech + 1,
                             current_tech, question), "")

\* variant: the banner is sent with every question
generate_next_always_intro(st, data, tq, idx, cache) ==
    LET current_tech == data.tech_stack[idx + 1]
        questions_for_current_tech == Len(tq) % questions_per_tech
        question == generate_question(cache, current_tech,
                                      questions_for_current_tech + 1)
        cache2 == cache_after(cache, current_tech, questions_for_current_tech + 1)
    IN  Outcome(st, data, Append(tq, question), idx, cache2,
                msg_question(intro_message(current_tech),
                             questions_for_current_tech + 1,
                             current_tech, question), "")

\* TalentScoutChatbot._generate_next_technical_questions
RECURSIVE generate_next_technical_questions(_, _, _, _, _)
generate_next_technical_questions(st, data, tq, idx, cache) ==
    IF "tech_stack" \notin DOMAIN data
    THEN Outcome(st, data, tq, idx, cache, None, "KeyError")
    ELSE IF idx >= Len(data.tech_stack)
    THEN Outcome(st, data, tq, idx, cache, None, "IndexError")
    ELSE
    LET current_tech == data.tech_stack[idx + 1]
        questions_for_current_tech == Len(tq) % questions_per_tech
        intro == IF questions_for_current_tech = 0
                 THEN intro_message(current_tech) ELSE <<>>
        question == generate_question(cache, current_tech,
                                      questions_for_current_tech + 1)
        cache2 == cache_after(cache, current_tech, questions_for_current_tech + 1)
    IN  IF Truthy(question)
        THEN Outcome(st, data, Append(tq, question), idx, cache2,
                     msg_question(intro, questions_for_current_tech + 1,
                                  current_tech, question), "")
        ELSE IF idx + 1 >= Len(data.tech_stack)
        THEN complete_technical_assessment(data, tq, idx + 1, cache2)
        ELSE generate_next_technical_questions(st, data, tq, idx + 1, cache2)

Same(resp) ==
    Outcome(conversation_state, candidate_data, technical_questions,
            current_tech_index, question_cache, resp, "")

Commit(field, value, next_state, resp) ==
    Outcome(next_state, Put(candidate_data, field, value), technical_questions,
            current_tech_index, question_cache, resp, "")

\* TalentScoutChatbot._handle_name
handle_name(input) ==
    IF match_name(input)
    THEN Commit("name", input, "email", msg_name_ok(input))
    ELSE Same(msg_name_bad)

\* variant: the address is stored under the key of the name
handle_email_into_name(input) ==
    IF match_email(input)
    THEN Commit("name", input, "phone", msg_email_ok)
    ELSE Same(msg_email_bad)

\* TalentScoutChatbot._handle_email
handle_email(input) ==
    IF match_email(input)
    THEN Commit("email", input, "phone", msg_email_ok)
    ELSE Same(msg_email_bad)

\* variant: the re-prompt gives the hint and does not repeat the question
handle_phone_hint_only(input) ==
    IF match_phone(input)
    THEN Commit("phone", input, "experience", msg_phone_ok)
    ELSE Same(<<msg_phone_bad[1]>>)

\* TalentScoutChatbot._handle_phone
handle_phone(input) ==
    IF match_phone(input)
    THEN Commit("phone", input, "experience", msg_phone_ok)
    ELSE Same(msg_phone_bad)

\* TalentScoutChatbot._handle_experience
handle_experience(input) ==
    LET years_match == search_digits(input)
        years == int(years_match)
    IN  IF Len(years_match) > MaxStrDigits
        THEN [Same(None) EXCEPT !.raised = "ValueError"]
        ELSE IF years_match # <<>> /\ 0 <= years /\ years <= YearsMax
        THEN Commit("experience", str(years) \o <<" ","y","e","a","r","s">>,
                    "position", msg_experience_ok)
        ELSE Same(msg_experience_bad)

\* variant: a position is accepted without being recorded
handle_position_unrecorded(input) ==
    IF Len(input) >= TextMin
    THEN [Same(msg_position_ok) EXCEPT !.conversation_state = "location"]
    ELSE Same(msg_position_bad)

\* TalentScoutChatbot._handle_position
handle_position(input) ==
    IF Len(input) >= TextMin
    THEN Commit("position", input, "location", msg_position_ok)
    ELSE Same(msg_position_bad)

\* variant: the location handler moves past the tech_stack state
handle_location_skips(input) ==
    IF Len(input) >= TextMin
    THEN Commit("location", input, "technical_questions", msg_location_ok)
    ELSE Same(msg_location_bad)

\* TalentScoutChatbot._handle_location
handle_location(input) ==
    IF Len(input) >= TextMin
    THEN Commit("location", input, "tech_stack", msg_location_ok)
    ELSE Same(msg_location_bad)

\* variant: the tech stack is acknowledged and the first question is left
\* to the next turn
handle_tech_stack_acknowledges(input) ==
    LET tech_stack == parse_tech_stack(input)
    IN  IF Len(tech_stack) >= 1
        THEN Outcome("technical_questions",
                     Put(candidate_data, "tech_stack", tech_stack),
                     technical_questions, 0, question_cache,
                     <<Lit("Great! ")>>, "")
        ELSE Same(msg_tech_stack_bad)

\* TalentScoutChatbot._handle_tech_stack
handle_tech_stack(input) ==
    LET tech_stack == parse_tech_stack(input)
    IN  IF Len(tech_stack) >= 1
        THEN generate_next_technical_questions(
                 "technical_questions", Put(candidate_data, "tech_stack", tech_stack),
                 technical_questions, 0, question_cache)
        ELSE Same(msg_tech_stack_bad)

\* variant: the technology is left one answer early
handle_technical_questions_early(input) ==
    IF "tech_stack" \notin DOMAIN candidate_data
    THEN [Same(None) EXCEPT !.raised = "KeyError"]
    ELSE IF current_tech_index >= Len(candidate_data.tech_stack)
    THEN [Same(None) EXCEPT !.raised = "IndexError"]
    ELSE IF (Len(technical_questions) + 1) % questions_per_tech = 0
    THEN IF current_tech_index + 1 >= Len(candidate_data.tech_stack)
         THEN complete_technical_assessment(candidate_data, technical_questions,
                                            current_tech_index + 1, question_cache)
         ELSE generate_next_technical_questions(
                  conversation_state, candidate_data, technical_questions,
                  current_tech_index + 1, question_cache)
    ELSE generate_next_technical_questions(
             conversation_state, candidate_data, technical_questions,
             current_tech_index, question_cache)

\* variant: the last technology is left without ending the quiz
handle_technical_questions_unbounded(input) ==
    IF "tech_stack" \notin DOMAIN candidate_data
    THEN [Same(None) EXCEPT !.raised = "KeyError"]
    ELSE IF current_tech_index >= Len(candidate_data.tech_stack)
    THEN [Same(None) EXCEPT !.raised = "IndexError"]
    ELSE IF Len(technical_questions) % questions_per_tech = 0
    THEN generate_next_technical_questions(
             conversation_state, candidate_data, technical_questions,
             current_tech_index + 1, question_cache)
    ELSE generate_next_technical_questions(
             conversation_state, candidate_data, technical_questions,
             current_tech_index, question_cache)

\* TalentScoutChatbot._handle_technical_questions
handle_technical_questions(input) ==
    IF "tech_stack" \notin DOMAIN candidate_data
    THEN [Same(None) EXCEPT !.raised = "KeyError"]
    ELSE IF current_tech_index >= Len(candidate_data.tech_stack)
    THEN [Same(None) EXCEPT !.raised = "IndexError"]
    ELSE IF Len(technical_questions) % questions_per_tech = 0
    THEN IF current_tech_index + 1 >= Len(candidate_data.tech_stack)
         THEN complete_technical_assessment(candidate_data, technical_questions,
                                            current_tech_index + 1, question_cache)
         ELSE generate_next_technical_questions(
                  conversation_state, candidate_data, technical_questions,
                  current_tech_index + 1, question_cache)
    ELSE generate_next_technical_questions(
             conversation_state, candidate_data, technical_questions,
             current_tech_index, question_cache)

\* variant: an unmatched state is sent back to the first question
handle_fallback_restarts(input) ==
    [Same(msg_fallback_other) EXCEPT !.conversation_state = "name"]

\* variant: one message for every unmatched state
handle_fallback_single(input) == Same(msg_fallback_completed)

\* TalentScoutChatbot._handle_fallback
handle_fallback(input) ==
    IF conversation_state = "completed"
    THEN Same(msg_fallback_completed)
    ELSE Same(msg_fallback_other)

\* variant: the empty input is not intercepted
dispatch_without_empty_check(input) ==
    CASE conversation_state = "name" -> handle_name(input)
      [] conversation_state = "email" -> handle_email(input)
      [] conversation_state = "phone" -> handle_phone(input)
      [] conversation_state = "experience" -> handle_experience(input)
      [] conversation_state = "position" -> handle_position(input)
      [] conversation_state = "location" -> handle_location(input)
      [] conversation_state = "tech_stack" -> handle_tech_stack(input)
      [] conversation_state = "technical_questions" ->
             handle_technical_questions(input)
      [] OTHER -> handle_fallback(input)

\* TalentScoutChatbot.process_input: the dispatch on the stripped input
dispatch(input) ==
    IF input = <<>> THEN Same(msg_no_input)
    ELSE CASE conversation_state = "name" -> handle_name(input)
           [] conversation_state = "email" -> handle_email(input)
           [] conversation_state = "phone" -> handle_phone(input)
           [] conversation_state = "experience" -> handle_experience(input)
           [] conversation_state = "position" -> handle_position(input)
           [] conversation_state = "location" -> handle_location(input)
           [] conversation_state = "tech_stack" -> handle_tech_stack(input)
           [] conversation_state = "technical_questions" ->
                  handle_technical_questions(input)
           [] OTHER -> handle_fallback(input)

----------------------------------------------------------------------------
(* The inputs a user types                                                 *)

\* spaces typed before and after an answer
MaxPad == 1
\* technologies named in one tech-stack answer
MaxTechs == 2

Rep(c, n) == [i \in 1..n |-> c]
Pad(s, n) == Rep(" ", n) \o s \o Rep(" ", n)
Padded(S) == {Pad(s, n) : s \in S, n \in 0..MaxPad}

Blank == {<<>>, <<" ", "\t">>}

NameInputs ==
    {<<"A"," ","l">>, <<"A">>, <<"A","1">>,
     Rep("a", NameMax), Rep("a", NameMax + 1)}

EmailInputs ==
    {<<"a","@","b",".","i","o">>, <<"a","@","b",".","c">>,
     <<"a","b",".","i","o">>, <<"a","@",".","i","o">>,
     <<"a"," ","@","b",".","i","o">>, <<"A","l">>}

PhoneInputs ==
    {Rep("1", PhoneMin), Rep("1", PhoneMin - 1),
     <<"+">> \o Rep("1", PhoneMax), <<"+">> \o Rep("1", PhoneMax + 1),
     <<"1","+","5","5","5","0","1","0","0">>, <<"A","l">>}

ExperienceInputs ==
    {<<"7">>, <<"I"," ","h","a","v","e"," ","7"," ","y","r","s">>,
     <<"0","0","7">>, <<"0">>, <<"5","0">>, <<"5","1">>, <<"7","0">>,
     <<"7","0"," ","5">>, <<"7",".","5","1">>, <<"n","o">>,
     Rep("9", MaxStrDigits + 1)}

PositionInputs == {<<"Q","A">>, <<"Q">>}

LocationInputs == {<<"N","Y">>, <<"N">>}

TechNames == {<<"P","y","t","h","o","n">>, <<"R","u","s","t">>}

RECURSIVE TechLists(_)
TechLists(n) ==
    IF n = 0 THEN {<<>>}
    ELSE TechLists(n - 1)
         \cup {Append(xs, t) : xs \in {ys \in TechLists(n - 1) : Len(ys) = n - 1},
                               t \in TechNames}

TechStackInputs ==
    {join(xs) : xs \in TechLists(MaxTechs) \ {<<>>}}
    \cup {<<",">>, <<" ",","," ",",">>,
          <<"s","q","l"," ",","," ",",","G","o">>,
          <<",","R","u","s","t",","," ","r","u","s","t">>}

AnswerInputs == {<<"o","k">>, <<"1">>}

StateNames == Range(states) \cup {"ended"}

Inputs ==
    [st \in StateNames |->
        Blank \cup Padded(
            CASE st = "name" -> NameInputs
              [] st = "email" -> EmailInputs
              [] st = "phone" -> PhoneInputs
              [] st = "experience" -> ExperienceInputs
              [] st = "position" -> PositionInputs
              [] st = "location" -> LocationInputs
              [] st = "tech_stack" -> TechStackInputs
              [] OTHER -> AnswerInputs)]

InputsFor(st) == Inputs[st]

----------------------------------------------------------------------------
(* The operations                                                          *)

\* TalentScoutChatbot.__init__
InitEngine ==
    /\ conversation_state = "greeting"
    /\ candidate_data = <<>>
    /\ technical_questions = <<>>
    /\ current_tech_index = 0
    /\ question_cache = <<>>
    /\ op = "init"
    /\ user_input = <<>>
    /\ response = None
    /\ raised = ""
    /\ prompt = None
    /\ answers = 0
    /\ phases = 0
    /\ progress = -1
    /\ starts = 0
    /\ call_technology = <<>>
    /\ call_number = 0
    /\ asked = <<>>

\* the record table before any save, and a host session before its first turn
InitShell ==
    /\ store = {}
    /\ now = 0
    /\ store_arg = <<>>
    /\ store_result = [value |-> "", summary |-> None]
    /\ db_fault = "none"
    /\ conversation_ended = FALSE
    /\ upserts = 0
    /\ turn_input = <<>>

\* one session only
InitRest ==
    /\ InitShell
    /\ other = <<>>

\* the engine on its own: no record store is attached
Init ==
    /\ InitEngine
    /\ hash_seed = <<>>
    /\ InitRest

\* variant: starting empties the record and the list of questions
start_conversation_fresh ==
    /\ conversation_state' = "name"
    /\ op' = "start"
    /\ response' = msg_start
    /\ raised' = ""
    /\ prompt' = IF conversation_state # "name" THEN msg_start ELSE prompt
    /\ starts' = starts + 1
    /\ candidate_data' = <<>>
    /\ technical_questions' = <<>>
    /\ current_tech_index' = 0
    /\ UNCHANGED <<question_cache, user_input, answers, phases, progress,
                   bank_calls>>

\* TalentScoutChatbot.start_conversation
start_conversation ==
    /\ conversation_state' = "name"
    /\ op' = "start"
    /\ response' = msg_start
    /\ raised' = ""
    /\ prompt' = IF conversation_state # "name" THEN msg_start ELSE prompt
    /\ starts' = starts + 1
    /\ UNCHANGED <<candidate_data, technical_questions, current_tech_index,
                   question_cache, user_input, answers, phases, progress, bank_calls>>

\* app.py main: the conversation is started once, before the first input
Start ==
    /\ conversation_state = "greeting"
    /\ start_conversation
    /\ UNCHANGED outside

\* TalentScoutChatbot.process_input
process_input(input) ==
    \E out \in {dispatch(strip(input))} :
        /\ op' = "process"
        /\ user_input' = input
        /\ prompt' = IF out.conversation_state # conversation_state
                     THEN out.response ELSE prompt
        /\ conversation_state' = out.conversation_state
        /\ candidate_data' = out.candidate_data
        /\ technical_questions' = out.technical_questions
        /\ current_tech_index' = out.current_tech_index
        /\ question_cache' = out.question_cache
        /\ response' = out.response
        /\ raised' = out.raised
        /\ answers' =
             IF strip(input) = <<>> THEN answers
             ELSE IF conversation_state = "tech_stack"
                     /\ out.conversation_state # "tech_stack" THEN 0
             ELSE IF conversation_state = "technical_questions" THEN answers + 1
             ELSE answers
        /\ phases' =
             IF /\ strip(input) # <<>>
                /\ conversation_state = "technical_questions"
                /\ out.current_tech_index # current_tech_index
             THEN phases + 1
             ELSE phases
        /\ UNCHANGED <<progress, starts, bank_calls>>

\* variant: ending the conversation drops the record
end_conversation_clears ==
    /\ conversation_state' = "ended"
    /\ op' = "end"
    /\ response' = msg_farewell(candidate_data)
    /\ raised' = ""
    /\ prompt' = IF conversation_state # "ended"
                 THEN msg_farewell(candidate_data) ELSE prompt
    /\ candidate_data' = <<>>
    /\ UNCHANGED <<technical_questions, current_tech_index,
                   question_cache, user_input, answers, phases, progress, starts,
                   bank_calls>>

\* TalentScoutChatbot.end_conversation
end_conversation ==
    /\ conversation_state' = "ended"
    /\ op' = "end"
    /\ response' = msg_farewell(candidate_data)
    /\ raised' = ""
    /\ prompt' = IF conversation_state # "ended"
                 THEN msg_farewell(candidate_data) ELSE prompt
    /\ UNCHANGED <<candidate_data, technical_questions, current_tech_index,
                   question_cache, user_input, answers, phases, progress, starts,
                   bank_calls>>

Process ==
    /\ \E input \in InputsFor(conversation_state) : process_input(input)
    /\ UNCHANGED outside

\* end_conversation called on the engine alone
End ==
    /\ end_conversation
    /\ UNCHANGED outside

Next == Start \/ Process \/ End

Spec == Init /\ [][Next]_vars

----------------------------------------------------------------------------
(* The question generator called directly, as the object it is             *)

\* pairs of arguments generate_question is called with on one generator
MaxAsked == 2
\* the largest question_number asked for
MaxNumber == 4

\* a table key in two other cases, a name that is a part of one key and
\* has another key as a part, an unknown technology in two cases, the
\* empty string
BankTechs ==
    {<<"P","y","t","h","o","n">>, <<"P","Y","T","H","O","N">>,
     <<"J","a","v","a","s">>,
     <<"R","u","s","t">>, <<"r","u","s","t">>, <<>>}

\* AIQuestionGenerator.generate_question(t, n)
\* AIQuestionGenerator.clear_cache: the cache it leaves
clear_cache == <<>>

call_generate_question(t, n) ==
    /\ op' = "generate"
    /\ call_technology' = t
    /\ call_number' = n
    /\ response' = generate_question(question_cache, t, n)
    /\ question_cache' = cache_after(question_cache, t, n)
    /\ raised' = ""
    /\ asked' = IF <<t, n>> \in DOMAIN asked THEN asked
                ELSE [x \in DOMAIN asked \cup {<<t, n>>} |->
                         IF x = <<t, n>>
                         THEN generate_question(question_cache, t, n)
                         ELSE asked[x]]
    /\ UNCHANGED <<conversation_state, candidate_data, technical_questions,
                   current_tech_index, user_input, prompt, answers, phases, progress,
                   starts>>

GetQuestion ==
    \E t \in BankTechs, n \in 1..MaxNumber :
        /\ <<t, n>> \in DOMAIN asked \/ Cardinality(DOMAIN asked) < MaxAsked
        /\ call_generate_question(t, n)
        /\ UNCHANGED outside

NextBank == GetQuestion

SpecBank == Init /\ [][NextBank]_vars

----------------------------------------------------------------------------
(* The engine as any caller may drive it: start_conversation and           *)
(* get_progress are public methods with no precondition                    *)

\* calls of start_conversation on one engine
MaxStarts == 2

\* a / b of two ints, as the exact fraction.  For the ten indexes of states
\* the doubles (i / 10) and (i / 10) * 100 round to the values the exact
\* fractions give, so the fraction stands for the float.
true_div(a, b) == [num |-> a, den |-> b]
times(q, k) == [num |-> q.num * k, den |-> q.den]
\* int(x) of a float x >= 0: truncation
int_of(q) == q.num \div q.den

\* variant: the index is divided by the index of the last state
get_progress_of_last(st) ==
    IF st \in Range(states)
    THEN LET current_index == (CHOOSE i \in DOMAIN states : states[i] = st) - 1
         IN  int_of(times(true_div(current_index, Len(states) - 1), 100))
    ELSE 0

\* TalentScoutChatbot.get_progress: the value returned in state st
get_progress_value(st) ==
    IF st \in Range(states)
    THEN LET current_index == (CHOOSE i \in DOMAIN states : states[i] = st) - 1
         IN  int_of(times(true_div(current_index, Len(states)), 100))
    ELSE 0

\* TalentScoutChatbot.get_progress
get_progress ==
    /\ op' = "progress"
    /\ progress' = get_progress_value(conversation_state)
    /\ raised' = ""
    /\ UNCHANGED <<conversation_state, candidate_data, technical_questions,
                   current_tech_index, question_cache, user_input, response,
                   prompt, answers, phases, starts, bank_calls>>

\* start_conversation called again, in whatever state the engine is
Restart ==
    /\ starts < MaxStarts
    /\ start_conversation
    /\ UNCHANGED outside

\* one accepted and one rejected answer for each question
BriefInputs ==
    [st \in StateNames |->
        CASE st = "name" -> {<<"A"," ","l">>, <<"A">>}
          [] st = "email" -> {<<"a","@","b",".","i","o">>, <<"A","l">>}
          [] st = "phone" -> {Rep("1", PhoneMin), <<"A","l">>}
          [] st = "experience" -> {<<"7">>, <<"n","o">>}
          [] st = "position" -> {<<"Q","A">>, <<"Q">>}
          [] st = "location" -> {<<"N","Y">>, <<"N">>}
          [] st = "tech_stack" -> {<<"R","u","s","t">>, <<",">>}
          [] OTHER -> {<<"o","k">>}]

Answer ==
    /\ \E input \in BriefInputs[conversation_state] : process_input(input)
    /\ UNCHANGED outside

\* get_progress called on the engine alone
Progress ==
    /\ get_progress
    /\ UNCHANGED outside

NextEngine == Restart \/ Answer \/ End \/ Progress

SpecEngine == Init /\ [][NextEngine]_vars

----------------------------------------------------------------------------
(* DatabaseHandler: the candidates table                                   *)

\* DatabaseHandler.data_retention_days
data_retention_days == 90

\* the days the clock advances in one step
TickDays == 90
MaxTicks == 2

\* values hash() returns for a str: a sign and the decimal digits
HashValues ==
    { [neg |-> TRUE, digits |-> <<"1","2","3","4","5","6","7","8","9","1">>],
      [neg |-> FALSE, digits |-> <<"7","6","6","4","0","6","4","7","0","6">>] }

\* abs() of a hash value
py_abs(h) == [h EXCEPT !.neg = FALSE]

\* str() of a hash value
str_int(h) == IF h.neg THEN <<"-">> \o h.digits ELSE h.digits

\* s[:n]
Take(s, n) == IF Len(s) < n THEN s ELSE SubSeq(s, 1, n)

\* str.replace(' ', '')
remove_spaces(s) == SelectSeq(s, LAMBDA c : c # " ")

\* dict.get(k): None when the key is absent
get(d, k) == IF k \in DOMAIN d THEN d[k] ELSE None

\* the str _generate_candidate_id hashes
combined(data) == remove_spaces(lower(get(data, "email") \o get(data, "name")))

\* DatabaseHandler._generate_candidate_id: hash() is the running process's
\* str hash, which Python salts anew in every process
generate_candidate_id(seed, data) ==
    Take(str_int(py_abs(seed[combined(data)])), 8)

\* DatabaseHandler._validate_candidate_data
validate_candidate_data(data) ==
    /\ \A field \in {"name", "email"} : field \in DOMAIN data /\ data[field] # <<>>
    /\ match_email(data.email)

\* the columns of a Candidate row that save_candidate_data writes
columns(data) ==
    [name |-> get(data, "name"),
     email |-> get(data, "email"),
     phone |-> get(data, "phone"),
     experience |-> get(data, "experience"),
     position |-> get(data, "position"),
     location |-> get(data, "location"),
     tech_stack |-> get(data, "tech_stack"),
     technical_questions |-> get(data, "technical_questions")]

\* a Candidate row; updated_at, which no method reads, is left out
Row(candidate_id, data, created_at) ==
    [candidate_id |-> candidate_id, columns |-> columns(data),
     created_at |-> created_at]

\* the table after the update or the insert of save_candidate_data
written(table, seed, data, today) ==
    LET candidate_id == generate_candidate_id(seed, data)
        existing == {r \in table : r.candidate_id = candidate_id}
    IN  IF existing # {}
        THEN (table \ existing)
             \cup {Row(candidate_id, data, r.created_at) : r \in existing}
        ELSE table \cup {Row(candidate_id, data, today)}

\* variant: nothing is removed
cleanup_keeps_all(table, today) == table

\* DatabaseHandler._cleanup_old_data
cleanup_old_data(table, today) ==
    {r \in table : ~(r.created_at < today - data_retention_days)}

\* what a database call can meet: no error, an error in the save's own
\* statements, an error in the cleanup's statements
Faults == {"none", "save", "cleanup"}

Result(value, summary) == [value |-> value, summary |-> summary]

\* variant: an error in the save's statements is not caught
save_outcome_uncaught(table, seed, data, today, fault) ==
    IF ~validate_candidate_data(data)
    THEN [table |-> table, value |-> "False", met |-> "none"]
    ELSE IF fault = "save"
    THEN [table |-> table, value |-> "Exception", met |-> fault]
    ELSE IF fault = "cleanup"
    THEN [table |-> written(table, seed, data, today), value |-> "True",
          met |-> fault]
    ELSE [table |-> cleanup_old_data(written(table, seed, data, today), today),
          value |-> "True", met |-> fault]

\* the table and the return value of save_candidate_data
save_outcome(table, seed, data, today, fault) ==
    IF ~validate_candidate_data(data)
    THEN [table |-> table, value |-> "False", met |-> "none"]
    ELSE IF fault = "save"
    THEN [table |-> table, value |-> "False", met |-> fault]
    ELSE IF fault = "cleanup"
    THEN [table |-> written(table, seed, data, today), value |-> "True",
          met |-> fault]
    ELSE [table |-> cleanup_old_data(written(table, seed, data, today), today),
          value |-> "True", met |-> fault]

\* DatabaseHandler.save_candidate_data
save_candidate_data(data, fault) ==
    /\ \E out \in {save_outcome(store, hash_seed, data, now, fault)} :
          /\ store' = out.table
          /\ store_result' = Result(out.value, None)
          /\ db_fault' = out.met
    /\ store_arg' = data
    /\ UNCHANGED <<now, hash_seed>>

\* variant: the rows are removed although nothing is reported
delete_outcome_silent(table, candidate_id, fault) ==
    [table |-> {r \in table : r.candidate_id # candidate_id}, value |-> "False"]

\* the table and the return value of delete_candidate_data
delete_outcome(table, candidate_id, fault) ==
    LET matching == {r \in table : r.candidate_id = candidate_id}
    IN  IF fault # "none" THEN [table |-> table, value |-> "False"]
        ELSE IF Cardinality(matching) > 0
        THEN [table |-> table \ matching, value |-> "True"]
        ELSE [table |-> table, value |-> "False"]

\* DatabaseHandler.delete_candidate_data
delete_candidate_data(candidate_id, fault) ==
    /\ \E out \in {delete_outcome(store, candidate_id, fault)} :
          /\ store' = out.table
          /\ store_result' = Result(out.value, None)
    /\ db_fault' = fault
    /\ store_arg' = candidate_id
    /\ UNCHANGED <<now, hash_seed>>

\* the dict get_candidate_summary builds from a row
summary_of(r) ==
    [candidate_id |-> r.candidate_id,
     name |-> r.columns.name,
     email |-> r.columns.email,
     position |-> r.columns.position,
     experience |-> r.columns.experience,
     tech_stack |-> r.columns.tech_stack,
     technical_questions |-> r.columns.technical_questions,
     created_at |-> r.created_at]

\* the return value of get_candidate_summary
summary_outcome(table, candidate_id, fault) ==
    LET matching == {r \in table : r.candidate_id = candidate_id}
    IN  IF fault # "none" \/ matching = {} THEN Result("None", None)
        ELSE Result("dict", summary_of(CHOOSE r \in matching : TRUE))

\* DatabaseHandler.get_candidate_summary
get_candidate_summary(candidate_id, fault) ==
    /\ store_result' = summary_outcome(store, candidate_id, fault)
    /\ db_fault' = fault
    /\ store_arg' = candidate_id
    /\ UNCHANGED <<store, now, hash_seed>>

\* the records handed to the store: two spellings of one candidate, a second
\* candidate, a record whose email ends in a line feed, the record of a
\* session that ended before its email was given, and a record whose email
\* is malformed
StoreRecords ==
    { [name |-> <<"A"," ","l">>, email |-> <<"a","@","b",".","i","o">>],
      [name |-> <<"A","l">>, email |-> <<"A","@","b",".","i","o">>],
      [name |-> <<"B","o">>, email |-> <<"b","@","b",".","i","o">>],
      [name |-> <<"A"," ","l">>, email |-> <<"a","@","b",".","i","o","\n">>],
      [name |-> <<"A"," ","l">>, technical_questions |-> <<>>],
      [name |-> <<"A"," ","l">>, email |-> <<"a","@","b">>] }

\* the strs the process hashes, and the hash functions a process can have
Combined ==
    {combined(data) : data \in {r \in StoreRecords : validate_candidate_data(r)}}
Seeds == [Combined -> HashValues]

\* the ids a caller can ask about
CandidateIds == {Take(str_int(py_abs(h)), 8) : h \in HashValues}

\* the engine's variables, which no store call touches
engine_vars ==
    <<conversation_state, candidate_data, technical_questions,
      current_tech_index, question_cache, user_input, response, raised,
      prompt, answers, phases, progress, starts, bank_calls>>

Save ==
    /\ \E data \in StoreRecords : \E fault \in Faults :
          save_candidate_data(data, fault)
    /\ op' = "save"
    /\ UNCHANGED <<engine_vars, host_vars, other>>

Delete ==
    /\ \E candidate_id \in CandidateIds : \E fault \in {"none", "save"} :
          delete_candidate_data(candidate_id, fault)
    /\ op' = "delete"
    /\ UNCHANGED <<engine_vars, host_vars, other>>

Get ==
    /\ \E candidate_id \in CandidateIds : \E fault \in {"none", "save"} :
          get_candidate_summary(candidate_id, fault)
    /\ op' = "get"
    /\ UNCHANGED <<engine_vars, host_vars, other>>

\* no call is in progress: nothing is kept of the call before
Idle ==
    /\ store_arg' = <<>>
    /\ store_result' = Result("", None)
    /\ db_fault' = "none"

\* time passes between two calls
Tick ==
    /\ now < MaxTicks * TickDays
    /\ now' = now + TickDays
    /\ op' = "tick"
    /\ Idle
    /\ UNCHANGED <<store, hash_seed>>
    /\ UNCHANGED <<engine_vars, host_vars, other>>

\* the process ends and another one opens the same table: the rows stay, the
\* new process has its own str hash
NewProcess ==
    /\ hash_seed' \in Seeds
    /\ op' = "boot"
    /\ Idle
    /\ UNCHANGED <<store, now>>
    /\ UNCHANGED <<engine_vars, host_vars, other>>

InitStore ==
    /\ InitEngine
    /\ hash_seed \in Seeds
    /\ InitRest

NextStore == Save \/ Delete \/ Get \/ Tick \/ NewProcess

SpecStore == InitStore /\ [][NextStore]_vars

----------------------------------------------------------------------------
(* app.py: the host of one browser session                                 *)

\* main: ending_keywords
ending_keywords ==
    { <<"e","x","i","t">>, <<"q","u","i","t">>, <<"b","y","e">>,
      <<"g","o","o","d","b","y","e">>, <<"e","n","d">>, <<"s","t","o","p">> }

\* variant: only a turn that is a keyword and nothing else ends the session
is_ending_exact(text) == lower(text) \in ending_keywords

\* any(keyword in user_input.lower() for keyword in ending_keywords)
is_ending(text) ==
    \E keyword \in ending_keywords : IsSubstring(keyword, lower(text))

\* variant: the record is handed over as it is
handed_record_alone(data, questions) == data

\* candidate_data.copy() with the key technical_questions added
handed_record(data, questions) == Put(data, "technical_questions", questions)

\* the first run of main in a session starts the conversation
HostStart ==
    /\ starts = 0
    /\ ~conversation_ended
    /\ start_conversation
    /\ UNCHANGED outside

\* main, the branch of a turn that holds an ending keyword
terminate_turn(fault) ==
    /\ end_conversation
    /\ conversation_ended' = TRUE
    /\ IF DOMAIN candidate_data # {}
       THEN /\ save_candidate_data(
                   handed_record(candidate_data, technical_questions), fault)
            /\ upserts' = upserts + 1
       ELSE UNCHANGED <<store_vars, upserts>>

\* main, the branch of any other turn
process_turn(text) ==
    /\ process_input(text)
    /\ UNCHANGED <<store_vars, conversation_ended, upserts>>

\* what the user types: an answer to the question, or a text that holds an
\* ending keyword
EndingInputs == { <<"B","a","c","k","e","n","d">>, <<"Q","U","I","T">> }
HostInputs == [st \in StateNames |-> BriefInputs[st] \cup EndingInputs]

\* main, one user turn; the chat input is shown only while the conversation
\* has started and has not ended
HostTurn ==
    /\ starts > 0
    /\ ~conversation_ended
    /\ \E text \in HostInputs[conversation_state] :
          /\ turn_input' = text
          /\ IF is_ending(text)
             THEN \E fault \in Faults : terminate_turn(fault)
             ELSE process_turn(text)
    /\ UNCHANGED other

\* main, the button "Start New Interview": the session state is cleared and
\* the next run builds a new engine and a new handler on the same table
NewInterview ==
    /\ conversation_ended
    /\ conversation_state' = "greeting"
    /\ candidate_data' = <<>>
    /\ technical_questions' = <<>>
    /\ current_tech_index' = 0
    /\ question_cache' = <<>>
    /\ op' = "init"
    /\ user_input' = <<>>
    /\ response' = None
    /\ raised' = ""
    /\ prompt' = None
    /\ answers' = 0
    /\ phases' = 0
    /\ progress' = -1
    /\ starts' = 0
    /\ conversation_ended' = FALSE
    /\ upserts' = 0
    /\ turn_input' = <<>>
    /\ Idle
    /\ UNCHANGED <<bank_calls, store, now, hash_seed, other>>

NextHost == HostStart \/ HostTurn \/ NewInterview

SpecHost == InitStore /\ [][NextHost]_vars

----------------------------------------------------------------------------
(* Two sessions: each has its own TalentScoutChatbot, which has its own    *)
(* AIQuestionGenerator; one of them runs, the other one is suspended       *)

\* the fields of the engine that runs, as the session numbered n
running(n) ==
    [session |-> n,
     conversation_state |-> conversation_state,
     candidate_data |-> candidate_data,
     technical_questions |-> technical_questions,
     current_tech_index |-> current_tech_index,
     question_cache |-> question_cache,
     op |-> op,
     user_input |-> user_input,
     response |-> response,
     raised |-> raised,
     prompt |-> prompt,
     answers |-> answers,
     phases |-> phases,
     starts |-> starts]

\* TalentScoutChatbot.__init__ for the session numbered n
fresh(n) ==
    [session |-> n,
     conversation_state |-> "greeting",
     candidate_data |-> <<>>,
     technical_questions |-> <<>>,
     current_tech_index |-> 0,
     question_cache |-> <<>>,
     op |-> "init",
     user_input |-> <<>>,
     response |-> None,
     raised |-> "",
     prompt |-> None,
     answers |-> 0,
     phases |-> 0,
     starts |-> 0]

\* variant: one question_cache serves both sessions
resumed_cache_shared(own, last_used) == last_used

\* the question_cache a resumed session works with: the one of its own
\* AIQuestionGenerator, whatever the other session did to its own
resumed_cache(own, last_used) == own

\* the sessions change places
Switch ==
    /\ other' = running(3 - other.session)
    /\ conversation_state' = other.conversation_state
    /\ candidate_data' = other.candidate_data
    /\ technical_questions' = other.technical_questions
    /\ current_tech_index' = other.current_tech_index
    /\ question_cache' = resumed_cache(other.question_cache, question_cache)
    /\ op' = other.op
    /\ user_input' = other.user_input
    /\ response' = other.response
    /\ raised' = other.raised
    /\ prompt' = other.prompt
    /\ answers' = other.answers
    /\ phases' = other.phases
    /\ starts' = other.starts
    /\ UNCHANGED <<progress, bank_calls, store_vars, host_vars>>

\* what the two candidates type: the answers of BriefInputs, and a second
\* spelling of the technology
TwoInputs ==
    [st \in StateNames |->
        IF st = "tech_stack" THEN BriefInputs[st] \cup {<<"r","u","s","t">>}
        ELSE BriefInputs[st]]

AnswerTwo ==
    /\ \E input \in TwoInputs[conversation_state] : process_input(input)
    /\ UNCHANGED outside

InitTwo ==
    /\ InitEngine
    /\ hash_seed = <<>>
    /\ InitShell
    /\ other = fresh(2)

NextTwo == Start \/ AnswerTwo \/ End \/ Switch

SpecTwo == InitTwo /\ [][NextTwo]_vars

----------------------------------------------------------------------------
(* Vocabulary of the properties, independent of the handlers               *)

CollectionStates ==
    {"name", "email", "phone", "experience", "position", "location", "tech_stack"}

\* the record's fields in the order the conversation asks for them
FieldOrder ==
    <<"name", "email", "phone", "experience", "position", "location", "tech_stack">>

\* needle occurs in msg as a run of consecutive parts
ContainsParts(msg, needle) ==
    \E i \in 0..(Len(msg) - Len(needle)) :
        \A j \in 1..Len(needle) : msg[i + j] = needle[j]

\* s without its leading and trailing whitespace
Trimmed(s) ==
    LET solid == {i \in DOMAIN s : s[i] \notin {" ", "\t", "\n", "\r"}}
    IN  IF solid = {} THEN <<>>
        ELSE SubSeq(s, CHOOSE i \in solid : \A j \in solid : i <= j,
                       CHOOSE i \in solid :
                           \A j \in (i + 1)..Len(s) : j \notin solid)

IsBlank(s) == \A i \in DOMAIN s : s[i] \in {" ", "\t", "\n", "\r"}

\* some comma-separated token of s is not blank
HasToken(s) == \E i \in DOMAIN s : s[i] \notin {",", " ", "\t", "\n", "\r"}

\* t lists the elements of xs in order, separated by ", "
RECURSIVE Enumerates(_, _)
Enumerates(t, xs) ==
    IF xs = <<>> THEN t = <<>>
    ELSE IF Len(xs) = 1 THEN t = xs[1]
    ELSE LET last == xs[Len(xs)]
             cut == Len(t) - Len(last) - 2
         IN  /\ cut >= 0
             /\ SubSeq(t, cut + 1, Len(t)) = <<",", " ">> \o last
             /\ Enumerates(SubSeq(t, 1, cut), SubSeq(xs, 1, Len(xs) - 1))

----------------------------------------------------------------------------
(* C1: once a tech stack of N technologies is accepted, the first 3N-1     *)
(* non-empty answers leave the state technical_questions and the 3N-th     *)
(* answer makes it completed, with 3N asked questions and a summary that   *)
(* lists the technologies of the tech stack in order.                      *)

----------------------------------------------------------------------------
(* C2: in state tech_stack an input with at least one token stores the     *)
(* tech stack, sets current_tech_index to 0, moves to technical_questions, *)
(* appends exactly one question (the first of the session) and returns the *)
(* banner "Technical Assessment: <first technology>", all in that call.    *)

----------------------------------------------------------------------------
(* C3: a process_input call leaves conversation_state unchanged or moves   *)
(* it to the next state of self.states; the state ended is entered only by *)
(* end_conversation.                                                       *)

C3_LinearOrder ==
    [][/\ op' = "process" =>
            \/ conversation_state' = conversation_state
            \/ \E i \in 1..(Len(states) - 1) :
                  /\ states[i] = conversation_state
                  /\ states[i + 1] = conversation_state'
       /\ (conversation_state' = "ended" /\ conversation_state # "ended")
            => op' = "end"]_vars

C3_Witness ==
    /\ conversation_state = "completed"
    /\ op = "process"
    /\ DOMAIN candidate_data = Range(FieldOrder)

----------------------------------------------------------------------------
(* C4: in a collection state, a process_input call whose stripped input    *)
(* fails the rule of that state's field raises no exception and leaves     *)
(* conversation_state, candidate_data, technical_questions and             *)
(* current_tech_index unchanged.  The code breaks this in state            *)
(* experience: int() raises ValueError on a digit run longer than          *)
(* MaxStrDigits, and _handle_experience does not catch it.                 *)

\* the rule of each field, on the answer as the handler sees it
NameRule(s) ==
    /\ Len(s) \in 2..50
    /\ \A i \in DOMAIN s : s[i] \in Letters \cup {" ", "\t", "\n", "\r"}

EmailRule(s) ==
    LET ats == {i \in DOMAIN s : s[i] = "@"}
        dots == {i \in DOMAIN s : s[i] = "."}
    IN  /\ Cardinality(ats) = 1
        /\ LET at == CHOOSE i \in ats : TRUE
               after == {i \in dots : i > at}
           IN  /\ at > 1
               /\ after # {}
               /\ LET dot == CHOOSE i \in after : \A j \in after : i >= j
                  IN  /\ dot > at + 1
                      /\ Len(s) >= dot + 2
                      /\ \A i \in DOMAIN s :
                            \/ i = at
                            \/ i = dot
                            \/ s[i] \in Letters
                            \/ i < dot /\ s[i] \in DigitSet \cup {".", "-"}
                            \/ i < at /\ s[i] \in {"_", "%", "+"}

PhoneRule(s) ==
    LET plus == IF s # <<>> /\ s[1] = "+" THEN 1 ELSE 0
    IN  /\ Len(s) - plus \in 8..20
        /\ \A i \in (plus + 1)..Len(s) :
              s[i] \in DigitSet \cup {" ", "\t", "\n", "\r", "-", "(", ")", "."}

\* the value of the first run of digits of s, -1 when s has no digit; a
\* value of 100 or more is reported as 100
FirstRunValue(s) ==
    LET ds == {i \in DOMAIN s : s[i] \in DigitSet}
    IN  IF ds = {} THEN -1
        ELSE LET first == CHOOSE i \in ds : \A j \in ds : i <= j
                 after == {j \in first..Len(s) : j \notin ds} \cup {Len(s) + 1}
                 last == (CHOOSE j \in after : \A k \in after : j <= k) - 1
                 nonzero == {k \in first..last : s[k] # "0"}
                 lead == IF nonzero = {} THEN last
                         ELSE CHOOSE k \in nonzero : \A m \in nonzero : k <= m
                 val[k \in (lead - 1)..last] ==
                    IF k < lead THEN 0
                    ELSE 10 * val[k - 1]
                         + (CHOOSE d \in 0..9 : DigitChars[d + 1] = s[k])
             IN  IF last - lead >= 2 THEN 100 ELSE val[last]

ExperienceRule(s) == FirstRunValue(s) \in 0..50

FreeTextRule(s) == Len(s) >= 2

FailsValidation(st, input) ==
    LET s == Trimmed(input)
    IN  /\ s # <<>>
        /\ CASE st = "name" -> ~NameRule(s)
             [] st = "email" -> ~EmailRule(s)
             [] st = "phone" -> ~PhoneRule(s)
             [] st = "experience" -> ~ExperienceRule(s)
             [] st = "position" -> ~FreeTextRule(s)
             [] st = "location" -> ~FreeTextRule(s)
             [] st = "tech_stack" -> ~HasToken(s)
             [] OTHER -> FALSE

C4_RejectionChangesNothing ==
    [][(op' = "process" /\ conversation_state \in CollectionStates
        /\ FailsValidation(conversation_state, user_input'))
       => /\ raised' = ""
          /\ UNCHANGED <<conversation_state, candidate_data,
                         technical_questions, current_tech_index>>]_vars

\* the call that raises: an out-of-range answer of MaxStrDigits + 1 digits
C4_Witness ==
    /\ conversation_state = "experience"
    /\ op = "process"
    /\ user_input = Rep("9", MaxStrDigits + 1)
    /\ FailsValidation("experience", user_input)
    /\ DOMAIN candidate_data = {"name", "email", "phone"}
    /\ raised = "ValueError"

----------------------------------------------------------------------------
(* C5: the message returned for an input that fails validation.  As        *)
(* claimed: in every collection state it contains the question text of the *)
(* prompt that was emitted when the state was entered, plus a hint.  As    *)
(* the code has it: so it is in the states name to location; in state      *)
(* tech_stack the message asks "**Please list your tech stack:**", which   *)
(* is not the question of the prompt.  A call that raises (C4) returns no  *)
(* message at all, so the property speaks of the calls that return.        *)

\* the question of a prompt: its first bold span, markers included
Question(msg) ==
    LET bolds == {i \in DOMAIN msg : msg[i] = Bold}
    IN  IF Cardinality(bolds) < 2 THEN msg
        ELSE LET open == CHOOSE i \in bolds : \A j \in bolds : i <= j
                 close == CHOOSE i \in bolds \ {open} :
                             \A j \in bolds \ {open} : i <= j
             IN  SubSeq(msg, open, close)

\* msg is a hint followed by more than the hint
HintThen(msg, question) ==
    /\ ContainsParts(msg, question)
    /\ Len(msg) > Len(question)
    /\ msg[1] # Bold

----------------------------------------------------------------------------
(* C6: in every state a process_input call with an empty or whitespace-    *)
(* only input returns the try-again message and changes neither            *)
(* conversation_state, candidate_data, technical_questions nor             *)
(* current_tech_index, and is not counted as an answer.                    *)

C6_BlankInputIgnored ==
    [][(op' = "process" /\ IsBlank(user_input'))
       => /\ response' =
               <<Lit("I didn't receive any input. Could you please try again?")>>
          /\ raised' = ""
          /\ answers' = answers
          /\ UNCHANGED <<conversation_state, candidate_data,
                         technical_questions, current_tech_index>>]_vars

C6_Witness ==
    /\ conversation_state = "technical_questions"
    /\ op = "process"
    /\ user_input = <<" ", "\t">>
    /\ answers = 1
    /\ Len(technical_questions) = 2
    /\ response = msg_no_input

----------------------------------------------------------------------------
(* C7: name inputs.  As claimed: every input that matches the name pattern *)
(* advances name to email and is stored as it is.  As the code has it: the *)
(* input is stripped first, so an input whose stripped form matches the    *)
(* pattern advances the state and its stripped form is stored; an input    *)
(* that matches only with its surrounding whitespace is rejected.          *)

C7_Original ==
    [][(op' = "process" /\ conversation_state = "name" /\ NameRule(user_input'))
       => /\ conversation_state' = "email"
          /\ "name" \in DOMAIN candidate_data'
          /\ candidate_data'.name = user_input']_vars

C7_StrippedNameStored ==
    [][(op' = "process" /\ conversation_state = "name")
       => IF NameRule(Trimmed(user_input'))
          THEN /\ conversation_state' = "email"
               /\ DOMAIN candidate_data' = {"name"}
               /\ candidate_data'.name = Trimmed(user_input')
          ELSE /\ conversation_state' = "name"
               /\ candidate_data' = candidate_data]_vars

C7_Witness ==
    /\ conversation_state = "email"
    /\ op = "process"
    /\ user_input = <<" ", "A", " ", "l", " ">>
    /\ candidate_data = [name |-> <<"A", " ", "l">>]

----------------------------------------------------------------------------
(* C8: over process_input and end_conversation calls after the one         *)
(* start_conversation, a field of candidate_data that is written keeps its *)
(* value, a call writes at most one field, and the fields present are      *)
(* always the first n of name, email, phone, experience, position,         *)
(* location, tech_stack.                                                   *)

C8_FieldsWrittenOnce ==
    [][/\ \A k \in DOMAIN candidate_data :
             k \in DOMAIN candidate_data' /\ candidate_data'[k] = candidate_data[k]
       /\ Cardinality(DOMAIN candidate_data' \ DOMAIN candidate_data) <= 1
       /\ \E n \in 0..Len(FieldOrder) :
             DOMAIN candidate_data' = {FieldOrder[i] : i \in 1..n}]_vars

C8_Witness ==
    /\ conversation_state = "ended"
    /\ op = "process"
    /\ DOMAIN candidate_data = {"name", "email", "phone", "experience"}
    /\ candidate_data.experience = <<"5","0"," ","y","e","a","r","s">>

----------------------------------------------------------------------------
(* C9: in state experience the first run of digits of the input decides:   *)
(* if its value n is in 0..50, experience becomes "<n> years" and the      *)
(* state becomes position; with no digit or n out of range the state stays *)
(* experience and experience is not written.                               *)

\* n in 0..99 in decimal
TwoDigits(n) ==
    IF n < 10 THEN <<DigitChars[n + 1]>>
    ELSE <<DigitChars[(n \div 10) + 1], DigitChars[(n % 10) + 1]>>

----------------------------------------------------------------------------
(* C10: in state tech_stack the stored tech_stack is the list of the       *)
(* comma-separated pieces of the input, each stripped, the empty ones      *)
(* dropped, order and duplicates kept; the input is rejected, the state    *)
(* staying tech_stack, exactly when no piece is left.                      *)

Tokens(s) ==
    LET cuts == {0, Len(s) + 1} \cup {i \in DOMAIN s : s[i] = ","}
        n == Cardinality(cuts) - 1
        cut[k \in 0..n] ==
            CHOOSE c \in cuts : Cardinality({d \in cuts : d < c}) = k
        piece[k \in 1..n] == Trimmed(SubSeq(s, cut[k - 1] + 1, cut[k] - 1))
        kept == {k \in 1..n : piece[k] # <<>>}
    IN  [j \in 1..Cardinality(kept) |->
            piece[CHOOSE k \in kept : Cardinality({x \in kept : x < k}) = j - 1]]

C10_TechStackTokens ==
    [][(op' = "process" /\ conversation_state = "tech_stack")
       => IF Tokens(user_input') # <<>>
          THEN /\ conversation_state' = "technical_questions"
               /\ "tech_stack" \in DOMAIN candidate_data'
               /\ candidate_data'.tech_stack = Tokens(user_input')
          ELSE /\ conversation_state' = "tech_stack"
               /\ "tech_stack" \notin DOMAIN candidate_data']_vars

C10_Witness ==
    /\ conversation_state = "technical_questions"
    /\ op = "process"
    /\ answers = 0
    /\ user_input = <<",","R","u","s","t",","," ","r","u","s","t">>
    /\ candidate_data.tech_stack = <<<<"R","u","s","t">>, <<"r","u","s","t">>>>

----------------------------------------------------------------------------
(* C11: end_conversation can be called in any state; it returns a          *)
(* non-empty farewell, sets conversation_state to "ended" and leaves       *)
(* candidate_data and technical_questions unchanged.                       *)

C11_TerminateAnywhere ==
    [][op' = "end"
       => /\ raised' = ""
          /\ Truthy(response')
          /\ ContainsParts(response', <<Lit("Thank you for your time!")>>)
          /\ conversation_state' = "ended"
          /\ UNCHANGED <<candidate_data, technical_questions>>]_vars

\* ended in the middle of the quiz, record and questions kept
C11_Witness ==
    /\ op = "end"
    /\ conversation_state = "ended"
    /\ DOMAIN candidate_data = Range(FieldOrder)
    /\ Len(technical_questions) = 2
    /\ Truthy(response)

----------------------------------------------------------------------------
(* C12: in the states completed, ended and greeting a process_input call   *)
(* leaves conversation_state, candidate_data, technical_questions and      *)
(* current_tech_index unchanged, whatever the input.                       *)

UnmatchedStates == {"greeting", "completed", "ended"}

C12_UnmatchedStatesFrozen ==
    [][(op' = "process" /\ conversation_state \in UnmatchedStates)
       => UNCHANGED <<conversation_state, candidate_data,
                      technical_questions, current_tech_index>>]_vars

C12_Witness ==
    /\ op = "process"
    /\ conversation_state = "completed"
    /\ ~IsBlank(user_input)
    /\ response = msg_fallback_completed
    /\ Len(technical_questions) = questions_per_tech

----------------------------------------------------------------------------
(* C13: the message process_input returns for a non-empty input in an      *)
(* unmatched state.  As claimed: the same "screening complete" message in  *)
(* completed, greeting and ended.  As the code has it: that message in     *)
(* completed only; in greeting and ended a different fixed message, "I'm   *)
(* not sure I understand ...".                                             *)

ScreeningComplete(msg) ==
    /\ msg # <<>>
    /\ msg[1] = Lit("Our initial screening is complete! If you have any questions about the position ")

NotUnderstood(msg) ==
    /\ msg # <<>>
    /\ msg[1] = Lit("I'm not sure I understand. Could you please provide the information I requested? ")

C13_Original ==
    [][(op' = "process" /\ conversation_state \in UnmatchedStates
        /\ ~IsBlank(user_input'))
       => ScreeningComplete(response')]_vars

C13_FallbackByState ==
    [][(op' = "process" /\ conversation_state \in UnmatchedStates
        /\ ~IsBlank(user_input'))
       => IF conversation_state = "completed"
          THEN ScreeningComplete(response') /\ ~NotUnderstood(response')
          ELSE NotUnderstood(response') /\ ~ScreeningComplete(response')]_vars

C13_Witness ==
    /\ op = "process"
    /\ conversation_state = "ended"
    /\ ~IsBlank(user_input)
    /\ NotUnderstood(response)

----------------------------------------------------------------------------
(* C14: "ended" is terminal: once conversation_state is "ended" no call of *)
(* process_input, end_conversation, start_conversation or get_progress     *)
(* changes conversation_state, candidate_data or technical_questions.      *)
(* The code breaks this: start_conversation assigns "name" in any state,   *)
(* and the calls that follow write the record again.                       *)

C14_EndedIsTerminal ==
    [][conversation_state = "ended"
       => UNCHANGED <<conversation_state, candidate_data,
                      technical_questions>>]_vars

----------------------------------------------------------------------------
(* C15: get_progress returns an integer in 0..100, equal to                *)
(* floor(100 * i / 10) where i is the place of conversation_state in the   *)
(* list greeting = 0 ... completed = 9, and changes nothing of the         *)
(* session.                                                                *)

StateIndex ==
    [greeting |-> 0, name |-> 1, email |-> 2, phone |-> 3, experience |-> 4,
     position |-> 5, location |-> 6, tech_stack |-> 7,
     technical_questions |-> 8, completed |-> 9]

C15_ProgressValue ==
    [][op' = "progress"
       => /\ raised' = ""
          /\ progress' \in 0..100
          /\ conversation_state \in DOMAIN StateIndex
               => progress' = (100 * StateIndex[conversation_state]) \div 10
          /\ UNCHANGED <<conversation_state, candidate_data,
                         technical_questions, current_tech_index,
                         question_cache>>]_vars

C15_Witness ==
    /\ op = "progress"
    /\ conversation_state = "completed"
    /\ progress = 90

----------------------------------------------------------------------------
(* C16: in a conversation started once, the values get_progress returns    *)
(* never decrease over the calls of process_input and end_conversation.    *)
(* The code breaks this: "ended" is not in the list of states, so          *)
(* get_progress returns 0 after end_conversation.                          *)

C16_ProgressMonotonic ==
    [][(op' = "progress" /\ starts = 1 /\ progress # -1)
       => progress' >= progress]_vars

\* get_progress returns 0 in state ended, the name already stored (the
\* call before end_conversation returned 20)
C16_Witness ==
    /\ op = "progress"
    /\ starts = 1
    /\ conversation_state = "ended"
    /\ DOMAIN candidate_data = {"name"}
    /\ progress = 0

----------------------------------------------------------------------------
(* C17: generate_question never raises and never returns None or an empty  *)
(* string, for every technology and every question_number >= 1, after any  *)
(* earlier calls; so a step of the engine that emits a question appends    *)
(* exactly one question and never skips a technology.                      *)

\* _generate_next_technical_questions on a one-technology stack, k questions
\* asked so far, with the generator as the direct calls have left it
EmitStep(t, k, cache) ==
    generate_next_technical_questions(
        "technical_questions", [tech_stack |-> <<t>>],
        Rep(<<Lit("asked")>>, k), 0, cache)

C17_AlwaysAQuestion ==
    /\ op = "generate" => raised = "" /\ response # None /\ Truthy(response)
    /\ \A t \in BankTechs, k \in 0..(questions_per_tech - 1) :
          \A out \in {EmitStep(t, k, question_cache)} :
              /\ out.raised = ""
              /\ Len(out.technical_questions) = k + 1
              /\ out.current_tech_index = 0
              /\ out.conversation_state = "technical_questions"

\* an unknown technology, a number past the three tiers, a cache in use
C17_Witness ==
    /\ op = "generate"
    /\ call_technology = <<"R","u","s","t">>
    /\ call_number = MaxNumber
    /\ Cardinality(DOMAIN question_cache) = MaxAsked
    /\ Truthy(response)

----------------------------------------------------------------------------
(* C18: on one generator, two generate_question calls with the same        *)
(* arguments return the same string, whatever generate_question calls are  *)
(* made in between.                                                        *)

C18_Idempotent ==
    [][(op' = "generate" /\ <<call_technology', call_number'>> \in DOMAIN asked)
       => response' = asked[<<call_technology', call_number'>>]]_vars

\* ("rust", 1) asked again, ("Rust", 1) asked as well
C18_Witness ==
    /\ op = "generate"
    /\ call_technology = <<"r","u","s","t">>
    /\ call_number = 1
    /\ Cardinality(DOMAIN asked) = MaxAsked
    /\ <<call_technology, call_number>> \in DOMAIN asked
    /\ <<(<<"R","u","s","t">>), 1>> \in DOMAIN asked
    /\ response = asked[<<call_technology, call_number>>]

----------------------------------------------------------------------------
(* C19: question number 4 of a technology of the table.  As claimed: the   *)
(* same string as question number 1, the index wrapping modulo 3.  As the  *)
(* code has it: the index wraps to the first entry, but of the             *)
(* intermediate tier, which every number other than 1, 2, 3 is given; the  *)
(* string differs from question number 1, the first entry of the basic     *)
(* tier.                                                                   *)

InTable(t) == \E k \in DOMAIN tech_questions : tech_questions[k].key = lower(t)
TableEntry(t) ==
    tech_questions[CHOOSE k \in DOMAIN tech_questions :
                       tech_questions[k].key = lower(t)]

C19_Original ==
    [][(op' = "generate" /\ call_number' = 4 /\ InTable(call_technology')
        /\ <<call_technology', 1>> \in DOMAIN asked)
       => response' = asked[<<call_technology', 1>>]]_vars

C19_FourthIsIntermediate ==
    [][(op' = "generate" /\ call_number' = 4 /\ InTable(call_technology'))
       => /\ response' = <<Lit(TableEntry(call_technology').intermediate[1])>>
          /\ <<call_technology', 1>> \in DOMAIN asked
               => /\ asked[<<call_technology', 1>>]
                       = <<Lit(TableEntry(call_technology').basic[1])>>
                  /\ response' # asked[<<call_technology', 1>>]]_vars

C19_Witness ==
    /\ op = "generate"
    /\ call_technology = <<"P","y","t","h","o","n">>
    /\ call_number = 4
    /\ <<call_technology, 1>> \in DOMAIN asked
    /\ response = <<Lit("How do decorators work in Python? Provide an example.")>>
    /\ asked[<<call_technology, 1>>]
         = <<Lit("What are the key differences between lists and tuples in Python?")>>

----------------------------------------------------------------------------
(* C20: for a technology that matches no key of the table, exactly or as   *)
(* a substring in either direction, generate_question returns a non-empty  *)
(* string that ends in "?" and contains the technology exactly as passed   *)
(* in that call, after any earlier calls on the generator, calls with the  *)
(* same technology in another letter case included.  The code breaks       *)
(* this: the cache key is the lowercased technology, so the second         *)
(* spelling is answered with the question made for the first.              *)

Unknown(t) ==
    \A k \in DOMAIN tech_questions :
        /\ ~IsSubstring(tech_questions[k].key, lower(t))
        /\ ~IsSubstring(lower(t), tech_questions[k].key)

\* the technology is a part of the message; no literal of the generic
\* templates contains a technology of BankTechs, so this is containment
Names(msg, t) == \E i \in DOMAIN msg : msg[i] = Txt(t)

C20_UnknownTechnologyNamed ==
    [][(op' = "generate" /\ Unknown(call_technology'))
       => /\ Truthy(response')
          /\ response'[Len(response')] = Lit("?")
          /\ Names(response', call_technology')]_vars

\* ("rust", 1) answered with the question made for "Rust"
C20_Witness ==
    /\ op = "generate"
    /\ call_technology = <<"r","u","s","t">>
    /\ call_number = 1
    /\ Unknown(call_technology)
    /\ Names(response, <<"R","u","s","t">>)
    /\ ~Names(response, call_technology)

----------------------------------------------------------------------------
(* C29: in a conversation started once, the k-th question appended to      *)
(* technical_questions (k = 0, 1, ...) is what generate_question returns   *)
(* for tech_stack[k div 3] and number (k mod 3) + 1, and the response      *)
(* carries that number, that technology and that question.                 *)

IsSuffix(tail, msg) ==
    /\ Len(tail) <= Len(msg)
    /\ SubSeq(msg, Len(msg) - Len(tail) + 1, Len(msg)) = tail

C29_StackOrderDrivesQuiz ==
    [][(op' = "process" /\ technical_questions' # technical_questions)
       => LET k == Len(technical_questions)
              t == candidate_data'.tech_stack[(k \div 3) + 1]
              n == (k % 3) + 1
              q == generate_question(question_cache, t, n)
          IN  /\ technical_questions' = Append(technical_questions, q)
              /\ current_tech_index' = k \div 3
              /\ ContainsParts(response',
                    <<Bold, Lit("Question "), Txt(TwoDigits(n)), Lit(" ("),
                      Txt(t), Lit("):"), Bold>>)
              /\ IsSuffix(q, response')]_vars

\* the second question about the second technology
C29_Witness ==
    /\ op = "process"
    /\ conversation_state = "technical_questions"
    /\ candidate_data.tech_stack
         = <<<<"P","y","t","h","o","n">>, <<"R","u","s","t">>>>
    /\ Len(technical_questions) = 5
    /\ current_tech_index = 1
    /\ ContainsParts(response,
          <<Lit("Question "), Txt(<<"2">>), Lit(" ("), Txt(<<"R","u","s","t">>)>>)

----------------------------------------------------------------------------
(* C30: a response that emits a question carries the banner, which names  *)
(* the technology and the count 3, if and only if the number of asked      *)
(* questions was a multiple of 3 before the question was appended.         *)

HasBanner(msg) == \E i \in DOMAIN msg : msg[i] = Lit("Technical Assessment: ")

BannerFor(msg, t) ==
    /\ ContainsParts(msg, <<Bold, Lit("Technical Assessment: "), Txt(t), Bold>>)
    /\ ContainsParts(msg, <<Lit("I'll ask you "), Txt(<<"3">>),
                            Lit(" questions about "), Txt(t)>>)

C30_BannerOnFirstQuestion ==
    [][(op' = "process" /\ technical_questions' # technical_questions)
       => LET k == Len(technical_questions)
              t == candidate_data'.tech_stack[current_tech_index' + 1]
          IN  IF k % 3 = 0
              THEN BannerFor(response', t)
              ELSE ~HasBanner(response')]_vars

\* the banner of the second technology
C30_Witness ==
    /\ op = "process"
    /\ Len(technical_questions) = 4
    /\ current_tech_index = 1
    /\ BannerFor(response, candidate_data.tech_stack[2])

----------------------------------------------------------------------------
(* The record store                                                        *)

SameCandidate(r1, r2) ==
    /\ r1.columns.name = r2.columns.name
    /\ r1.columns.email = r2.columns.email

\* C21: records with the same email and name are saved under one id, so the
\* table never holds two rows for one candidate, whichever store instance or
\* process made the saves
C21_OneRowPerCandidate ==
    \A r1 \in store : \A r2 \in store : SameCandidate(r1, r2) => r1 = r2

C21_Witness ==
    /\ op = "save"
    /\ store_result.value = "True"
    /\ \E r1 \in store : \E r2 \in store :
          /\ r1 # r2
          /\ SameCandidate(r1, r2)
          /\ r1.columns.name = store_arg.name
          /\ r1.columns.email = store_arg.email

Acceptable(data) ==
    /\ "name" \in DOMAIN data
    /\ data.name # <<>>
    /\ "email" \in DOMAIN data
    /\ data.email # <<>>
    /\ EmailRule(data.email)

\* C22: a save is accepted only for a record with a non-empty name and a
\* non-empty email of the email format; any other record gets False and the
\* table is left as it was
C22_UnacceptableRecordRefused ==
    [][op' = "save"
       => /\ store_result'.value = "True" => Acceptable(store_arg')
          /\ ~Acceptable(store_arg')
                => store_result'.value = "False" /\ store' = store]_vars

C22_Witness ==
    /\ op = "save"
    /\ store_result.value = "True"
    /\ store_arg.email[Len(store_arg.email)] = "\n"
    /\ \E r \in store : r.columns.email = store_arg.email

Expired(r, today) == r.created_at + 90 < today

\* C23: right after a successful save whose cleanup met no error, no row of
\* the table was created more than 90 days ago
C23_NoExpiredRowAfterSave ==
    [][(op' = "save" /\ store_result'.value = "True" /\ db_fault' = "none")
       => \A r \in store' : ~Expired(r, now')]_vars

C23_Witness ==
    /\ op = "save"
    /\ store_result.value = "True"
    /\ db_fault = "none"
    /\ now = 2 * TickDays
    /\ \E r \in store : r.created_at = TickDays

WithId(table, candidate_id) == {r \in table : r.candidate_id = candidate_id}

\* C24: delete_candidate_data returns True exactly when rows with the id
\* existed and are gone, False when there was none; after True a lookup of
\* the id finds nothing; rows with other ids are never touched
C24_DeleteReportsRemoval ==
    [][/\ op' = "delete"
          => /\ store_result'.value \in {"True", "False"}
             /\ store_result'.value = "True"
                   <=> (WithId(store, store_arg') # {}
                        /\ WithId(store', store_arg') = {})
             /\ WithId(store, store_arg') = {} => store_result'.value = "False"
             /\ store_result'.value = "True"
                   => \A fault \in Faults :
                         summary_outcome(store', store_arg', fault).value = "None"
             /\ store' \ WithId(store', store_arg')
                   = store \ WithId(store, store_arg')
       /\ (op = "delete" /\ store_result.value = "True"
           /\ op' = "get" /\ store_arg' = store_arg)
          => store_result'.value = "None"]_vars

C24_Witness ==
    /\ op = "delete"
    /\ store_result.value = "True"
    /\ store # {}

----------------------------------------------------------------------------
(* The host                                                                *)

\* C25: a failure of the save never becomes an exception: the save returns
\* False, and in the turn that ends the session the farewell has been
\* returned and the session is marked ended whatever the save returned
C25_StoreFailureContained ==
    [][op' = "end"
       => /\ raised' = ""
          /\ conversation_ended'
          /\ ContainsParts(response', <<Lit("Thank you for your time!")>>)
          /\ upserts' # upserts
                => /\ store_result'.value \in {"True", "False"}
                   /\ (db_fault' = "save" \/ ~Acceptable(store_arg'))
                         => store_result'.value = "False" /\ store' = store]_vars

C25_Witness ==
    /\ op = "end"
    /\ conversation_ended
    /\ upserts = 1
    /\ db_fault = "save"
    /\ store_result.value = "False"
    /\ Truthy(response)

Keywords ==
    { <<"e","x","i","t">>, <<"q","u","i","t">>, <<"b","y","e">>,
      <<"g","o","o","d","b","y","e">>, <<"e","n","d">>, <<"s","t","o","p">> }

Recognised(text) ==
    \E k \in Keywords : \E i \in 0..(Len(text) - Len(k)) :
        \A j \in 1..Len(k) : LowerChar(text[i + j]) = k[j]

\* C26: a turn whose lowercased text contains one of the keywords ends the
\* conversation and is not processed; any other turn is processed; once the
\* session has ended no turn reaches the engine
C26_TurnRouting ==
    [][/\ op' \in {"process", "end"}
          => /\ ~conversation_ended
             /\ IF Recognised(turn_input')
                THEN /\ op' = "end"
                     /\ conversation_state' = "ended"
                     /\ UNCHANGED <<user_input, candidate_data,
                                    technical_questions, current_tech_index,
                                    question_cache, answers>>
                ELSE /\ op' = "process"
                     /\ user_input' = turn_input'
       /\ conversation_ended => op' = "init" /\ ~conversation_ended']_vars

\* "Backend", typed as the desired position, ended the session
C26_Witness ==
    /\ op = "end"
    /\ turn_input = <<"B","a","c","k","e","n","d">>
    /\ conversation_state = "ended"
    /\ "experience" \in DOMAIN candidate_data
    /\ "position" \notin DOMAIN candidate_data
    /\ conversation_ended

\* C27: the record with the asked questions is handed to save_candidate_data
\* once in a session, in the turn that ends it, when the record is not
\* empty; no other step calls the store
C27_RecordHandedOverOnce ==
    [][/\ upserts' # upserts
          => \/ op' = "init" /\ upserts' = 0
             \/ /\ op' = "end"
                /\ upserts = 0
                /\ upserts' = 1
                /\ DOMAIN candidate_data # {}
                /\ DOMAIN store_arg'
                      = DOMAIN candidate_data \cup {"technical_questions"}
                /\ \A k \in DOMAIN candidate_data :
                      k # "technical_questions" => store_arg'[k] = candidate_data[k]
                /\ store_arg'.technical_questions = technical_questions
       /\ (op' = "end" /\ DOMAIN candidate_data # {}) => upserts' = upserts + 1
       /\ (op' = "end" /\ DOMAIN candidate_data = {}) => UNCHANGED <<upserts, store>>
       /\ op' # "end" => store' = store /\ (upserts' = upserts \/ op' = "init")]_vars

\* ended after the quiz was completed: one save, with the three questions
C27_Witness ==
    /\ op = "end"
    /\ upserts = 1
    /\ Len(technical_questions) = 3
    /\ store_arg.technical_questions = technical_questions
    /\ store_result.value = "True"

----------------------------------------------------------------------------
(* Two sessions                                                            *)

SessionFields ==
    {"conversation_state", "candidate_data", "technical_questions",
     "current_tech_index", "question_cache", "op", "user_input", "response",
     "raised", "prompt", "answers", "phases", "starts"}

\* the questions a session holds in its cache are the questions it was asked
CacheIsOwn(cache, questions) ==
    {cache[k] : k \in DOMAIN cache} = Range(questions)

\* C28: a step of one session leaves every field of the other session as it
\* was, a session is resumed with exactly the fields it was suspended with,
\* and the cache of each session holds its own questions only
C28_SessionsIndependent ==
    [][/\ \/ other' = other
          \/ /\ other'.session # other.session
             /\ \A f \in SessionFields : other'[f] = running(0)[f]
             /\ conversation_state' = other.conversation_state
             /\ candidate_data' = other.candidate_data
             /\ technical_questions' = other.technical_questions
             /\ current_tech_index' = other.current_tech_index
             /\ question_cache' = other.question_cache
             /\ response' = other.response
             /\ prompt' = other.prompt
       /\ CacheIsOwn(question_cache', technical_questions')
       /\ CacheIsOwn(other'.question_cache, other'.technical_questions)]_vars

\* both candidates are in the quiz, one about "rust" and one about "Rust",
\* and each was asked about the technology as that candidate wrote it
C28_Witness ==
    /\ candidate_data # <<>>
    /\ other.candidate_data # <<>>
    /\ "tech_stack" \in DOMAIN candidate_data
    /\ "tech_stack" \in DOMAIN other.candidate_data
    /\ candidate_data.tech_stack = << <<"r","u","s","t">> >>
    /\ other.candidate_data.tech_stack = << <<"R","u","s","t">> >>
    /\ Len(technical_questions) = 2
    /\ Len(other.technical_questions) = 2
    /\ technical_questions[1] # other.technical_questions[1]

----------------------------------------------------------------------------
(* The list of asked questions                                             *)

\* C31: every call of the engine leaves technical_questions as it is or
\* appends one element to it; no element is removed, moved or rewritten
C31_AppendOnly ==
    [][\/ technical_questions' = technical_questions
       \/ /\ Len(technical_questions') = Len(technical_questions) + 1
          /\ SubSeq(technical_questions', 1, Len(technical_questions))
                = technical_questions]_vars

\* started a second time with three questions in the list, and asked a
\* fourth one
C31_Witness ==
    /\ op = "process"
    /\ starts = 2
    /\ conversation_state = "technical_questions"
    /\ Len(technical_questions) = 4

\* C32: when _handle_technical_questions moves on from a technology (the
\* index is advanced or the state becomes completed) the list, as it is at
\* that moment, before the next technology's first question is appended,
\* holds three questions for every technology moved on from so far
C32_ThreePerCompletedPhase ==
    [][(/\ op' = "process"
        /\ \/ current_tech_index' > current_tech_index
           \/ conversation_state' = "completed" /\ conversation_state # "completed")
       => /\ Len(technical_questions) % 3 = 0
          /\ Len(technical_questions) = 3 * phases']_vars

\* one technology completed, six questions in the list
C32_Witness ==
    /\ op = "process"
    /\ conversation_state = "completed"
    /\ phases = 1
    /\ Len(technical_questions) = 6

----------------------------------------------------------------------------
(* The table of questions                                                  *)

Tier(n) ==
    IF n = 1 THEN "basic"
    ELSE IF n = 2 THEN "intermediate"
    ELSE IF n = 3 THEN "advanced"
    ELSE "intermediate"

TierList(entry, tier) ==
    IF tier = "basic" THEN entry.basic
    ELSE IF tier = "advanced" THEN entry.advanced
    ELSE entry.intermediate

TableQuestion(entry, n) ==
    LET list == TierList(entry, Tier(n))
    IN  <<Lit(list[((n - 1) % Len(list)) + 1])>>

SameLetters(t1, t2) ==
    /\ Len(t1) = Len(t2)
    /\ \A i \in DOMAIN t1 : LowerChar(t1[i]) = LowerChar(t2[i])

\* C33: for a technology that is a key of the table in any letter case,
\* generate_question on an empty cache returns the entry of the key's list
\* for the tier of the number (1 basic, 2 intermediate, 3 advanced, any
\* other intermediate) at index (n - 1) mod the list's length, and every
\* other letter case of the technology gets the same string
C33_TableLookup ==
    [][(op' = "generate" /\ question_cache = <<>> /\ InTable(call_technology'))
       => /\ response' = TableQuestion(TableEntry(call_technology'), call_number')
          /\ \A t \in BankTechs :
                SameLetters(t, call_technology')
                   => generate_question(<<>>, t, call_number') = response']_vars

\* "PYTHON", number 4, on a new generator
C33_Witness ==
    /\ op = "generate"
    /\ call_technology = <<"P","Y","T","H","O","N">>
    /\ call_number = 4
    /\ DOMAIN question_cache = {cache_key(call_technology, call_number)}
    /\ response = <<Lit("How do decorators work in Python? Provide an example.")>>

KeyOrder ==
    << <<"p","y","t","h","o","n">>,
       <<"j","a","v","a","s","c","r","i","p","t">>,
       <<"r","e","a","c","t">>,
       <<"n","o","d","e",".","j","s">>,
       <<"j","a","v","a">>,
       <<"s","q","l">>,
       <<"m","o","n","g","o","d","b">>,
       <<"d","o","c","k","e","r">>,
       <<"k","u","b","e","r","n","e","t","e","s">> >>

Matches(i, low) ==
    \/ IsSubstring(KeyOrder[i], low)
    \/ IsSubstring(low, KeyOrder[i])

Matching(t) ==
    LET low == lower(t) IN {i \in DOMAIN KeyOrder : Matches(i, low)}

FirstMatchingKey(t) ==
    LET low == lower(t)
    IN  KeyOrder[CHOOSE i \in DOMAIN KeyOrder :
                    /\ Matches(i, low)
                    /\ \A j \in 1..(i - 1) : ~Matches(j, low)]

EntryOf(key) ==
    tech_questions[CHOOSE k \in DOMAIN tech_questions : tech_questions[k].key = key]

IsGeneric(msg) == \E i \in DOMAIN msg : msg[i].txt # <<>>

\* C34: a technology that is no key of the table gets the question of the
\* first key, in the order python, javascript, react, node.js, java, sql,
\* mongodb, docker, kubernetes, that is a part of the lowercased technology
\* or has it as a part; a generic question is returned only when there is
\* no such key
C34_FirstPartialMatch ==
    [][(op' = "generate" /\ ~InTable(call_technology'))
       => IF Matching(call_technology') # {}
          THEN /\ response'
                    = TableQuestion(EntryOf(FirstMatchingKey(call_technology')),
                                    call_number')
               /\ ~IsGeneric(response')
          ELSE IsGeneric(response')]_vars

\* "Javas" is a part of javascript and has java as a part: javascript,
\* the earlier key, is taken
C34_Witness ==
    /\ op = "generate"
    /\ call_technology = <<"J","a","v","a","s">>
    /\ call_number = 1
    /\ Cardinality(Matching(call_technology)) = 2
    /\ response = TableQuestion(EntryOf(KeyOrder[2]), 1)
    /\ response # TableQuestion(EntryOf(KeyOrder[5]), 1)

----------------------------------------------------------------------------
(* C35: in a session started once, whenever the state is                   *)
(* technical_questions the record has a tech_stack and current_tech_index  *)
(* is a position of it (0 <= index < len(tech_stack)), and no call has     *)
(* failed on reading the tech stack or the technology at the index.        *)

C35_IndexInRange ==
    /\ raised \notin {"KeyError", "IndexError"}
    /\ conversation_state = "technical_questions"
          => /\ "tech_stack" \in DOMAIN candidate_data
             /\ 0 <= current_tech_index
             /\ current_tech_index < Len(candidate_data.tech_stack)

C35_Witness ==
    /\ op = "process"
    /\ conversation_state = "technical_questions"
    /\ Len(candidate_data.tech_stack) = 2
    /\ current_tech_index = 1
    /\ Len(technical_questions) = 6

----------------------------------------------------------------------------
(* C36: in a session started once, whenever the state is one of the        *)
(* states of the linear order the record holds exactly the fields of the   *)
(* collection states that come before it, and no question has been asked   *)
(* in a state that comes before technical_questions.                       *)

Preceding(st) == {c \in CollectionStates : StateIndex[c] < StateIndex[st]}

C36_RecordTracksState ==
    conversation_state \in Range(states)
       => /\ DOMAIN candidate_data = Preceding(conversation_state)
          /\ StateIndex[conversation_state] < StateIndex["technical_questions"]
                => technical_questions = <<>>

C36_Witness ==
    /\ op = "process"
    /\ conversation_state = "phone"
    /\ DOMAIN candidate_data = {"name", "email"}
    /\ technical_questions = <<>>
    /\ response = msg_email_ok

----------------------------------------------------------------------------
(* C37: start_conversation, called in any state, leaves a fresh session:   *)
(* the state is name, the record is empty, no question is listed as asked  *)
(* and current_tech_index is 0.                                            *)

C37_StartResets ==
    [][op' = "start"
       => /\ conversation_state' = "name"
          /\ candidate_data' = <<>>
          /\ technical_questions' = <<>>
          /\ current_tech_index' = 0]_vars

\* a second start that finds a filled record and a list of asked questions
C37_Witness ==
    /\ op = "start"
    /\ starts = 2
    /\ conversation_state = "name"
    /\ DOMAIN candidate_data = CollectionStates
    /\ Len(technical_questions) = 3

----------------------------------------------------------------------------
(* C38: whenever save_candidate_data returns True the record is in the     *)
(* table when the call returns: get_candidate_summary with the record's    *)
(* id, called next, returns a summary with the record's name and email.    *)
(* This is claimed for every history of the table, a row created more      *)
(* than 90 days before included.                                           *)

C38_SavedIsStored ==
    [][(op' = "save" /\ store_result'.value = "True")
       => LET candidate_id == generate_candidate_id(hash_seed', store_arg')
              got == summary_outcome(store', candidate_id, "none")
          IN  /\ got.value = "dict"
              /\ got.summary.name = store_arg'.name
              /\ got.summary.email = store_arg'.email]_vars

\* a save that reports True and leaves no row of the candidate
C38_Witness ==
    /\ op = "save"
    /\ store_result.value = "True"
    /\ db_fault = "none"
    /\ now = 2 * TickDays
    /\ WithId(store, generate_candidate_id(hash_seed, store_arg)) = {}

----------------------------------------------------------------------------
(* C39: the cache changes no result: every call of generate_question       *)
(* returns the string that the same call returns on a generator whose      *)
(* cache has just been cleared.                                            *)

C39_CacheTransparent ==
    [][op' = "generate"
       => response' = generate_question(clear_cache, call_technology',
                                        call_number')]_vars

\* ("rust", 2) answered from the cache with the question made for "Rust"
C39_Witness ==
    /\ op = "generate"
    /\ call_technology = <<"r","u","s","t">>
    /\ call_number = 2
    /\ response = generate_question(clear_cache, <<"R","u","s","t">>, 2)
    /\ response # generate_question(clear_cache, call_technology, call_number)

====
